---- MODULE Spec2Model ----
(***************************************************************************)
(* WorktrackerPro: the experience store and DatabaseStorage's              *)
(* searchExperiences (server/storage.ts), the in-memory filter behind      *)
(* GET /api/experiences and POST /api/experiences/search; MemStorage's     *)
(* searchExperiences; the column form's generateColumnKey; the column      *)
(* store behind the column routes; and the moves of the column             *)
(* configuration page.                                                     *)
(*                                                                         *)
(* Encoding of the TypeScript values:                                      *)
(*  - a string is a sequence of one-character strings, "" is << >>;        *)
(*  - an optional value (undefined / null or a value) is a set with at     *)
(*    most one element: {} is absent, {v} is present;                      *)
(*  - a `date` column value 'YYYY-MM-DD' is the number of its day, a JS    *)
(*    Date is its epoch time in milliseconds;                              *)
(*  - a customFields value is [kind, items]: kind "str" with the string    *)
(*    as items[1], or kind "seq" with the sequence of strings as items; a  *)
(*    number is kind "num" with String(number) as items[1], an array of    *)
(*    numbers is kind "nseq" with their String forms as items;             *)
(*  - an array that the code only reads with some / includes / length      *)
(*    (tagIds, a selected option list, an experience's tags) is a set.     *)
(***************************************************************************)
EXTENDS Integers, Sequences, FiniteSets, TLC

VARIABLES experiences, tags, experienceTags, params, result, pc,
          experienceCurrentId, tagCurrentId, experienceTagCurrentId,
          calls, returned,
          storage, columns, columnCurrentId, response,
          sortedColumns, requests, moves, form,
          home, experienceTable

\* the id counters of the experience store (MemStorage's fields, the serial
\* sequences of the tables), the storage calls that have read but not yet
\* written, and what the last storage call returned
storeVars ==
  <<experienceCurrentId, tagCurrentId, experienceTagCurrentId, calls, returned>>
\* the experience store with the search call in progress
experienceVars ==
  <<experiences, tags, experienceTags, params, result, pc, storeVars>>
\* the wired storage, the column store, and the column configuration page of
\* each client
columnVars ==
  <<storage, columns, columnCurrentId, response, sortedColumns, requests, moves, form>>
\* the Home page of a client: the data of its experiences query with the
\* filter result it holds, and the search box and page of its experience table
pageVars == <<home, experienceTable>>
vars == <<experienceVars, columnVars, pageVars>>

(***************************************************************************)
(* Bounds of the model.                                                    *)
(***************************************************************************)
MaxExperiences == 2
MaxDay == 2
MaxTag == 2
MaxNameLen == 3
MaxColumnId == 3
MaxOrder == 2
MaxImport == 2
MaxMoves == 2
MaxLinkId == 3

Days == 1..MaxDay
TagIds == 1..MaxTag
\* the browser sessions that have the column configuration page open
Clients == {"client1", "client2"}

(***************************************************************************)
(* Optional values.                                                        *)
(***************************************************************************)
None == {}
Some(v) == {v}
IsSome(o) == o # {}
Get(o) == CHOOSE v \in o : TRUE
Optional(S) == {None} \cup {Some(v) : v \in S}

(***************************************************************************)
(* Strings.                                                                *)
(***************************************************************************)
Str1(a) == <<a>>
Str2(a, b) == <<a, b>>

\* String.prototype.toLowerCase on one character of the model's alphabet
ToLowerChar(c) ==
  CASE c = "A" -> "a"
    [] c = "B" -> "b"
    [] c = "C" -> "c"
    [] c = "K" -> "k"
    [] c = "L" -> "l"
    [] c = "M" -> "m"
    [] c = "N" -> "n"
    [] OTHER -> c

\* String.prototype.toLowerCase
ToLowerCase(s) == [i \in 1..Len(s) |-> ToLowerChar(s[i])]

\* String.prototype.includes: t occurs in s as a contiguous substring
Includes(s, t) ==
  \E i \in 0..(Len(s) - Len(t)) : SubSeq(s, i + 1, i + Len(t)) = t

\* new Date('YYYY-MM-DD'): midnight UTC of that day, in epoch milliseconds
NewDate(day) == day * 86400000

(***************************************************************************)
(* customFields values.                                                    *)
(***************************************************************************)
StrValue(s) == [kind |-> "str", items |-> <<s>>]
SeqValue(ss) == [kind |-> "seq", items |-> ss]
NumValue(s) == [kind |-> "num", items |-> <<s>>]
NumSeqValue(ss) == [kind |-> "nseq", items |-> ss]

\* Array.isArray(value)
IsArray(value) == value.kind \in {"seq", "nseq"}

\* JS truthiness of a stored value: "" and 0 are falsy, every array is truthy
Truthy(value) ==
  \/ IsArray(value)
  \/ /\ value.items[1] # << >>
     /\ ~(value.kind = "num" /\ value.items[1] = Str1("0"))

\* v.toLowerCase() is called on the value, or on its elements, and they are
\* no strings: TypeError
LowerCaseThrows(value) ==
  \/ value.kind = "num"
  \/ value.kind = "nseq" /\ value.items # << >>

(***************************************************************************)
(* DatabaseStorage.getExperienceTags / getExperiences: every experience    *)
(* row, in the order of the select, annotated with its joined tags. The    *)
(* experiences table has no user column and the routes pass no userId, so  *)
(* the select yields every stored row.                                     *)
(***************************************************************************)
\* the tags joined to the links of an experience (MemStorage: the tags its
\* Map holds for the tag ids of the links)
ExperienceTagsIn(links, experienceId) ==
  {[id |-> t, name |-> tags[t]] :
     t \in {l.tagId : l \in {x \in links : x.experienceId = experienceId}}
             \cap DOMAIN tags}

GetExperienceTags(experienceId) == ExperienceTagsIn(experienceTags, experienceId)

GetExperiences ==
  [i \in 1..Len(experiences) |->
     [id |-> experiences[i].id,
      startDate |-> experiences[i].startDate,
      endDate |-> experiences[i].endDate,
      customFields |-> experiences[i].customFields,
      tags |-> GetExperienceTags(experiences[i].id)]]

(***************************************************************************)
(* The predicates of searchExperiences, one per filter category.           *)
(***************************************************************************)
\* variant: > in place of >=
StartDateMatches_Strict(exp, startDate) == NewDate(exp.startDate) > startDate

\* new Date(exp.startDate) >= startDate
StartDateMatches(exp, startDate) == NewDate(exp.startDate) >= startDate

\* variant: the !exp.endDate alternative is missing
EndDateMatches_AbsentFails(exp, endDate) ==
  /\ IsSome(exp.endDate)
  /\ NewDate(Get(exp.endDate)) <= endDate

\* !exp.endDate || new Date(exp.endDate) <= endDate
EndDateMatches(exp, endDate) ==
  \/ ~IsSome(exp.endDate)
  \/ NewDate(Get(exp.endDate)) <= endDate

\* variant: every selected tag must be attached (every in place of some)
TagsMatch_Every(exp, tagIds) ==
  \A tagId \in tagIds : \E tag \in exp.tags : tag.id = tagId

\* exp.tags?.some(tag => params.tagIds!.includes(tag.id))
TagsMatch(exp, tagIds) == \E tag \in exp.tags : tag.id \in tagIds

\* customFields[columnKey.toLowerCase()]: the stored value, absent or present
FieldValue(exp, columnKey) ==
  IF ToLowerCase(columnKey) \in DOMAIN exp.customFields
    THEN Some(exp.customFields[ToLowerCase(columnKey)])
    ELSE None

\* variant: an entry with no selected option matches nothing
DropdownEntryMatches_EmptyFails(exp, columnKey, selectedValues) ==
  LET fieldValue == FieldValue(exp, columnKey) IN
    IF ~IsSome(fieldValue) \/ ~Truthy(Get(fieldValue)) THEN FALSE
    ELSE IF IsArray(Get(fieldValue))
      THEN \E selected \in selectedValues :
             \E i \in 1..Len(Get(fieldValue).items) :
               ToLowerCase(Get(fieldValue).items[i]) = ToLowerCase(selected)
      ELSE \E selected \in selectedValues :
             ToLowerCase(Get(fieldValue).items[1]) = ToLowerCase(selected)

\* the callback of Object.entries(dropdownFilters).every(...)
DropdownEntryMatches(exp, columnKey, selectedValues) ==
  IF selectedValues = {} THEN TRUE
  ELSE LET fieldValue == FieldValue(exp, columnKey) IN
    IF ~IsSome(fieldValue) \/ ~Truthy(Get(fieldValue)) THEN FALSE
    ELSE IF IsArray(Get(fieldValue))
      THEN \E selected \in selectedValues :
             \E i \in 1..Len(Get(fieldValue).items) :
               ToLowerCase(Get(fieldValue).items[i]) = ToLowerCase(selected)
      ELSE \E selected \in selectedValues :
             ToLowerCase(Get(fieldValue).items[1]) = ToLowerCase(selected)

\* the callback raises a TypeError: a non-empty selection meets a truthy value
\* that is no string and no array of strings
DropdownEntryThrows(exp, columnKey, selectedValues) ==
  /\ selectedValues # {}
  /\ IsSome(FieldValue(exp, columnKey))
  /\ Truthy(Get(FieldValue(exp, columnKey)))
  /\ LowerCaseThrows(Get(FieldValue(exp, columnKey)))

\* every(...) visits the entries in the order of the object's keys and stops
\* at the first entry that answers false
DropdownThrows(exp, dropdownFilters, order) ==
  \E j \in 1..Len(order) :
    /\ DropdownEntryThrows(exp, order[j], dropdownFilters[order[j]])
    /\ \A i \in 1..(j - 1) :
         /\ ~DropdownEntryThrows(exp, order[i], dropdownFilters[order[i]])
         /\ DropdownEntryMatches(exp, order[i], dropdownFilters[order[i]])

DropdownMatches(exp, dropdownFilters) ==
  \A columnKey \in DOMAIN dropdownFilters :
    DropdownEntryMatches(exp, columnKey, dropdownFilters[columnKey])

\* the keys of a jsonb object as Postgres returns them: shorter keys first,
\* then in byte order ("K" < "k" < "m")
JsonbKeyOrder == <<Str1("K"), Str1("k"), Str1("m")>>
ObjectKeys(customFields) ==
  SelectSeq(JsonbKeyOrder, LAMBDA k : k \in DOMAIN customFields)

\* the callback of Object.values(customFields).some(...) for one value; a
\* scalar is compared as String(value)
ValueMatches(value, searchTerm) ==
  /\ Truthy(value)
  /\ IF IsArray(value)
       THEN \E i \in 1..Len(value.items) :
              Includes(ToLowerCase(value.items[i]), searchTerm)
       ELSE Includes(ToLowerCase(value.items[1]), searchTerm)

\* the callback raises a TypeError: v.toLowerCase() on an element of an array
\* of numbers
ValueThrows(value) == value.kind = "nseq" /\ value.items # << >>

\* some(...) visits the values in key order and stops at the first match; an
\* array of numbers reached before a match raises a TypeError
CustomFieldsThrows(exp, searchTerm) ==
  LET keys == ObjectKeys(exp.customFields) IN
    \E j \in 1..Len(keys) :
      /\ ValueThrows(exp.customFields[keys[j]])
      /\ \A i \in 1..(j - 1) :
           /\ ~ValueThrows(exp.customFields[keys[i]])
           /\ ~ValueMatches(exp.customFields[keys[i]], searchTerm)

\* Object.values(customFields).some(value => ...)
CustomFieldsMatch(exp, searchTerm) ==
  \E k \in DOMAIN exp.customFields : ValueMatches(exp.customFields[k], searchTerm)

\* exp.tags?.some(tag => tag.name.toLowerCase().includes(searchTerm))
TagNamesMatch(exp, searchTerm) ==
  \E tag \in exp.tags : Includes(ToLowerCase(tag.name), searchTerm)

SearchTermMatches(exp, searchTerm) ==
  CustomFieldsMatch(exp, searchTerm) \/ TagNamesMatch(exp, searchTerm)

(***************************************************************************)
(* The five filter steps, each guarded as in the code and applied to the   *)
(* output of the step before it.                                           *)
(***************************************************************************)
\* Array.prototype.reverse
Reverse(s) == [i \in 1..Len(s) |-> s[Len(s) + 1 - i]]

\* variant: the kept records are returned newest first
FilterByStartDate_Resorted(exps, p) ==
  IF IsSome(p.startDate)
    THEN Reverse(SelectSeq(exps, LAMBDA exp : StartDateMatches(exp, Get(p.startDate))))
    ELSE exps

FilterByStartDate(exps, p) ==
  IF IsSome(p.startDate)
    THEN SelectSeq(exps, LAMBDA exp : StartDateMatches(exp, Get(p.startDate)))
    ELSE exps

FilterByEndDate(exps, p) ==
  IF IsSome(p.endDate)
    THEN SelectSeq(exps, LAMBDA exp : EndDateMatches(exp, Get(p.endDate)))
    ELSE exps

\* variant: the guard on params.tagIds is missing, an absent list is an empty one
FilterByTags_Unguarded(exps, p) ==
  SelectSeq(exps,
    LAMBDA exp : TagsMatch(exp, IF IsSome(p.tagIds) THEN Get(p.tagIds) ELSE {}))

FilterByTags(exps, p) ==
  IF IsSome(p.tagIds) /\ Cardinality(Get(p.tagIds)) > 0
    THEN SelectSeq(exps, LAMBDA exp : TagsMatch(exp, Get(p.tagIds)))
    ELSE exps

\* variant: the dropdown step is an else-branch of the tag step
FilterByDropdown_ElseOfTags(exps, p) ==
  IF IsSome(p.tagIds) /\ Cardinality(Get(p.tagIds)) > 0
    THEN exps
    ELSE IF IsSome(p.dropdownFilters) /\ DOMAIN Get(p.dropdownFilters) # {}
      THEN SelectSeq(exps, LAMBDA exp : DropdownMatches(exp, Get(p.dropdownFilters)))
      ELSE exps

FilterByDropdown(exps, p) ==
  IF IsSome(p.dropdownFilters) /\ DOMAIN Get(p.dropdownFilters) # {}
    THEN SelectSeq(exps, LAMBDA exp : DropdownMatches(exp, Get(p.dropdownFilters)))
    ELSE exps

\* variant: the term is compared as typed (no toLowerCase on params.searchTerm)
FilterBySearchTerm_TermAsTyped(exps, p) ==
  IF IsSome(p.searchTerm) /\ Get(p.searchTerm) # << >>
    THEN SelectSeq(exps, LAMBDA exp : SearchTermMatches(exp, Get(p.searchTerm)))
    ELSE exps

FilterBySearchTerm(exps, p) ==
  IF IsSome(p.searchTerm) /\ Get(p.searchTerm) # << >>
    THEN SelectSeq(exps,
           LAMBDA exp : SearchTermMatches(exp, ToLowerCase(Get(p.searchTerm))))
    ELSE exps

\* the orders in which Object.entries can yield the entries of dropdownFilters
EntryOrders(p) ==
  IF IsSome(p.dropdownFilters)
    THEN LET keys == DOMAIN Get(p.dropdownFilters) IN
      {order \in [1..Cardinality(keys) -> keys] :
         \A i, j \in 1..Cardinality(keys) : order[i] = order[j] => i = j}
    ELSE {<< >>}

\* searchExperiences raises a TypeError instead of returning: in the dropdown
\* step, or else in the search-term step, for a record that reaches the step;
\* only a stored value that is no string and no array of strings can raise it
SearchThrows(allExperiences, p, order) ==
  LET afterTags ==
        FilterByTags(FilterByEndDate(FilterByStartDate(allExperiences, p), p), p)
      dropdownThrows ==
        /\ IsSome(p.dropdownFilters)
        /\ \E n \in 1..Len(afterTags) :
             DropdownThrows(afterTags[n], Get(p.dropdownFilters), order)
  IN /\ \E n \in 1..Len(allExperiences) :
          \E k \in DOMAIN allExperiences[n].customFields :
            allExperiences[n].customFields[k].kind \in {"num", "nseq"}
     /\ \/ dropdownThrows
        \/ /\ ~dropdownThrows
           /\ IsSome(p.searchTerm)
           /\ Get(p.searchTerm) # << >>
           /\ \E n \in 1..Len(FilterByDropdown(afterTags, p)) :
                CustomFieldsThrows(FilterByDropdown(afterTags, p)[n],
                                   ToLowerCase(Get(p.searchTerm)))

\* the value searchExperiences returns for the collection allExperiences
Search(allExperiences, p) ==
  FilterBySearchTerm(
    FilterByDropdown(
      FilterByTags(
        FilterByEndDate(
          FilterByStartDate(allExperiences, p), p), p), p), p)

(***************************************************************************)
(* The filter specification of one call. EmptyParams is the call with no   *)
(* startDate, endDate, tagIds, searchTerm or dropdownFilters.              *)
(***************************************************************************)
EmptyParams ==
  [startDate |-> None, endDate |-> None, tagIds |-> None,
   searchTerm |-> None, dropdownFilters |-> None]

\* p with every category but one removed
OnlyStartDate(p) == [EmptyParams EXCEPT !.startDate = p.startDate]
OnlyEndDate(p) == [EmptyParams EXCEPT !.endDate = p.endDate]
OnlyTagIds(p) == [EmptyParams EXCEPT !.tagIds = p.tagIds]
OnlyDropdown(p) == [EmptyParams EXCEPT !.dropdownFilters = p.dropdownFilters]
OnlySearchTerm(p) == [EmptyParams EXCEPT !.searchTerm = p.searchTerm]

(***************************************************************************)
(* Store contents the specifications start from.                           *)
(***************************************************************************)
NoFields == [k \in {} |-> k]

\* the tags table: tag ids with their (unique) names
TagNamePool == <<Str1("A"), Str2("b", "C"), Str1("c"), Str2("a", "b")>>
TagTable == [t \in TagIds |-> TagNamePool[t]]

\* column keys: generated (lower-case), typed with an upper-case letter, another
KeyLower == Str1("k")
KeyUpper == Str1("K")
KeyOther == Str1("m")
Keys == {KeyLower, KeyUpper, KeyOther}

\* stored values: "", "A", "ab", [], ["b","c"], ["c"]
FieldValues ==
  {StrValue(<< >>), StrValue(Str1("A")), StrValue(Str2("a", "b")),
   SeqValue(<< >>), SeqValue(<<Str1("b"), Str1("c")>>), SeqValue(<<Str1("c")>>)}
PairValues == {StrValue(Str1("A")), SeqValue(<<Str1("b"), Str1("c")>>)}

\* customFields bags: none, one key with any value, two keys
OneFieldBags == {(k :> v) : k \in Keys, v \in FieldValues}
TwoFieldBags ==
  {(k1 :> v1) @@ (k2 :> v2) :
     k1 \in {KeyLower}, k2 \in {KeyUpper, KeyOther}, v1 \in PairValues, v2 \in PairValues}
FieldBags == {NoFields} \cup OneFieldBags \cup TwoFieldBags

\* what one experience holds: its two dates, its custom fields, its linked tags
Content(sd, ed, ts, cf) ==
  [startDate |-> sd, endDate |-> ed, tags |-> ts, customFields |-> cf]

DateContents == {Content(sd, ed, {}, NoFields) : sd \in Days, ed \in Optional(Days)}
TagContents == {Content(1, None, ts, NoFields) : ts \in SUBSET TagIds}
FieldContents == {Content(1, None, {}, cf) : cf \in FieldBags}
MixedContents ==
  {Content(sd, ed, ts, cf) :
     sd \in {1, 2}, ed \in {None, Some(2)}, ts \in {{}, {1}},
     cf \in {NoFields, (KeyLower :> StrValue(Str1("A"))),
             (KeyOther :> SeqValue(<<Str1("c")>>)),
             (KeyLower :> StrValue(Str1("A"))) @@ (KeyOther :> SeqValue(<<Str1("c")>>))}}

Collections(contents) == UNION {[1..n -> contents] : n \in 0..MaxExperiences}

\* the id of the link row of experience i and tag t in a store that was filled
\* experience by experience
LinkId(i, t) == (i - 1) * MaxTag + t

\* the counters of a store that holds n experiences, every tag of the tags
\* table and the link rows of these experiences; no storage call is under way
StoreCounters(n) ==
  /\ experienceCurrentId = n + 1
  /\ tagCurrentId = MaxTag + 1
  /\ experienceTagCurrentId = n * MaxTag + 1
  /\ calls = << >>
  /\ returned = None

\* a column form that has not been touched
EmptyForm == [column |-> None, name |-> << >>, key |-> << >>]

\* no client has moved a column
NoMoves == [c \in Clients |-> [count |-> 0, last |-> None, fetching |-> FALSE]]

\* no column exists and no client has the column configuration page open
\* the Home page before its query has data: useQuery's default [], no filter
\* result (useState([])), and the table's empty search box on page 1
EmptyHome == [experiences |-> << >>, filteredExperiences |-> << >>]
FirstPage == [searchTerm |-> << >>, page |-> 1]
NoPageActivity ==
  /\ home = EmptyHome
  /\ experienceTable = FirstPage

NoColumnActivity(wired) ==
  /\ storage = wired
  /\ columns = << >>
  /\ columnCurrentId = 1
  /\ response = None
  /\ sortedColumns = [c \in Clients |-> << >>]
  /\ requests = {}
  /\ moves = NoMoves
  /\ form = EmptyForm

InitStore(contents) ==
  \E cs \in Collections(contents) :
    /\ NoPageActivity
    /\ NoColumnActivity("DatabaseStorage")
    /\ experiences =
         [i \in 1..Len(cs) |->
            [id |-> i, startDate |-> cs[i].startDate, endDate |-> cs[i].endDate,
             customFields |-> cs[i].customFields]]
    /\ experienceTags =
         UNION {{[id |-> LinkId(i, t), experienceId |-> i, tagId |-> t] :
                   t \in cs[i].tags} : i \in 1..Len(cs)}
    /\ StoreCounters(Len(cs))
    /\ tags = TagTable
    /\ params = EmptyParams
    /\ result = << >>
    /\ pc = "idle"

(***************************************************************************)
(* Filter specifications the calls are drawn from.                         *)
(***************************************************************************)
Dates == {NewDate(d) : d \in Days}

DateParams ==
  {[EmptyParams EXCEPT !.startDate = sd, !.endDate = ed] :
     sd \in Optional(Dates), ed \in Optional(Dates)}

TagParams == {[EmptyParams EXCEPT !.tagIds = ts] : ts \in Optional(SUBSET TagIds)}

\* selected option lists: [], ["a"], ["a","B"], ["ab"]
Selections == {{}, {Str1("a")}, {Str1("a"), Str1("B")}, {Str2("a", "b")}}
PairSelections == {{Str1("a")}, {Str1("a"), Str1("B")}}
DropdownFilters ==
  {NoFields} \cup
  {(k :> s) : k \in Keys, s \in Selections} \cup
  {(k1 :> s1) @@ (k2 :> s2) :
     k1 \in {KeyLower}, k2 \in {KeyUpper, KeyOther},
     s1 \in PairSelections, s2 \in PairSelections}
DropdownParams ==
  {[EmptyParams EXCEPT !.dropdownFilters = df] : df \in Optional(DropdownFilters)}

MixedParams ==
  {[startDate |-> sd, endDate |-> ed, tagIds |-> ts, searchTerm |-> st,
    dropdownFilters |-> df] :
     sd \in {None, Some(NewDate(2))}, ed \in {None, Some(NewDate(1))},
     ts \in {None, Some({1})}, st \in {None, Some(Str1("C"))},
     df \in {None, Some((KeyLower :> {Str1("a")}))}}

(***************************************************************************)
(* searchExperiences(params): reads the store, answers with the filtered   *)
(* collection.                                                             *)
(***************************************************************************)
SearchExperiences(p) ==
  /\ pc = "idle"
  /\ params' = p
  /\ LET found == Search(GetExperiences, p) IN
       \E order \in EntryOrders(p) :
         IF SearchThrows(GetExperiences, p, order)
           THEN result' = << >> /\ pc' = "failed"
           ELSE result' = found /\ pc' = "done"
  /\ UNCHANGED <<experiences, tags, experienceTags, storeVars>>
  /\ UNCHANGED <<columnVars, pageVars>>

\* the route handler sends the result (res.json), or status 500 from its
\* catch block, and the request is over
Respond ==
  /\ pc \in {"done", "failed"}
  /\ params' = EmptyParams
  /\ result' = << >>
  /\ pc' = "idle"
  /\ UNCHANGED <<experiences, tags, experienceTags, storeVars>>
  /\ UNCHANGED <<columnVars, pageVars>>

\* any collection, filters combining all five categories
Init == InitStore(MixedContents)
Next == (\E p \in MixedParams : SearchExperiences(p)) \/ Respond
Spec == Init /\ [][Next]_vars

\* experiences that differ in their dates, date filters
DateInit == InitStore(DateContents)
DateNext == (\E p \in DateParams : SearchExperiences(p)) \/ Respond
DateSpec == DateInit /\ [][DateNext]_vars

\* experiences that differ in their tags, tagIds filters
TagInit == InitStore(TagContents)
TagNext == (\E p \in TagParams : SearchExperiences(p)) \/ Respond
TagSpec == TagInit /\ [][TagNext]_vars

\* experiences that differ in their custom fields, dropdown filters
DropdownInit == InitStore(FieldContents)
DropdownNext == (\E p \in DropdownParams : SearchExperiences(p)) \/ Respond
DropdownSpec == DropdownInit /\ [][DropdownNext]_vars

\* experiences that differ in their custom fields and their one tag, search
\* terms in both letter cases
TermBags ==
  {NoFields,
   (KeyLower :> StrValue(<< >>)),
   (KeyLower :> StrValue(Str1("A"))),
   (KeyLower :> StrValue(Str2("a", "b"))),
   (KeyLower :> SeqValue(<<Str1("b"), Str1("c")>>)),
   (KeyLower :> SeqValue(<<Str1("C")>>)),
   (KeyLower :> StrValue(Str1("A"))) @@ (KeyOther :> SeqValue(<<Str1("b"), Str1("c")>>))}
TermContents ==
  {Content(1, None, ts, cf) : ts \in {{}} \cup {{t} : t \in TagIds}, cf \in TermBags}
SearchTerms ==
  {Str1("a"), Str1("A"), Str1("c"), Str1("C"), Str2("b", "C"), Str2("a", "b"),
   Str2("A", "B")}
TermParams == {[EmptyParams EXCEPT !.searchTerm = st] : st \in Optional(SearchTerms)}

TermInit == InitStore(TermContents)
TermNext == (\E p \in TermParams : SearchExperiences(p)) \/ Respond
TermSpec == TermInit /\ [][TermNext]_vars

\* experiences whose custom fields hold numbers and arrays of numbers next to
\* strings; dropdown and search-term filters that reach them
ShapeBags ==
  {NoFields,
   (KeyLower :> StrValue(Str1("A"))),
   (KeyLower :> SeqValue(<<Str1("c")>>)),
   (KeyLower :> NumValue(Str1("5"))),
   (KeyLower :> NumValue(Str1("0"))),
   (KeyLower :> NumSeqValue(<<Str1("5")>>)),
   (KeyLower :> NumSeqValue(<< >>)),
   (KeyUpper :> StrValue(Str1("A"))) @@ (KeyLower :> NumSeqValue(<<Str1("5")>>)),
   (KeyLower :> NumSeqValue(<<Str1("5")>>)) @@ (KeyOther :> StrValue(Str1("A")))}
ShapeContents == {Content(1, None, {}, cf) : cf \in ShapeBags}
ShapeParams ==
  {[EmptyParams EXCEPT !.dropdownFilters = df, !.searchTerm = st] :
     df \in {None, Some((KeyLower :> {Str1("a")})), Some((KeyLower :> {Str1("5")})),
             Some((KeyLower :> {})),
             Some((KeyLower :> {Str1("a")}) @@ (KeyOther :> {Str1("a")}))},
     st \in {None, Some(Str1("a")), Some(Str1("5"))}}

ShapeInit == InitStore(ShapeContents)
ShapeNext == (\E p \in ShapeParams : SearchExperiences(p)) \/ Respond
ShapeSpec == ShapeInit /\ [][ShapeNext]_vars

\* filters with empty fields next to absent and active ones: tagIds [],
\* searchTerm "", dropdownFilters {} and entries with no selected option
InactiveContents ==
  {Content(1, None, ts, cf) :
     ts \in {{}, {1}},
     cf \in {NoFields, (KeyLower :> StrValue(Str1("A"))),
             (KeyOther :> SeqValue(<<Str1("c")>>)),
             (KeyLower :> StrValue(Str1("A"))) @@ (KeyOther :> SeqValue(<<Str1("c")>>))}}
InactiveParams ==
  {[EmptyParams EXCEPT !.tagIds = ts, !.dropdownFilters = df, !.searchTerm = st] :
     ts \in {None, Some({}), Some({1})},
     df \in {None, Some(NoFields), Some((KeyLower :> {})), Some((KeyLower :> {Str1("a")})),
             Some((KeyLower :> {}) @@ (KeyOther :> {Str1("c")})),
             Some((KeyOther :> {Str1("c")}))},
     st \in {None, Some(<< >>), Some(Str1("a"))}}

InactiveInit == InitStore(InactiveContents)
InactiveNext == (\E p \in InactiveParams : SearchExperiences(p)) \/ Respond
InactiveSpec == InactiveInit /\ [][InactiveNext]_vars

(***************************************************************************)
(* MemStorage: the in-memory store keeps the experience objects themselves *)
(* in a Map; getExperiences writes the tags it resolves into the stored    *)
(* objects (their tags property, absent on a created experience).          *)
(***************************************************************************)
\* the callback of Object.values(exp.customFields).some(...) of MemStorage
MemCustomFieldsMatch(exp, searchTerm) ==
  \E k \in DOMAIN exp.customFields :
    LET value == exp.customFields[k] IN
      /\ Truthy(value)
      /\ value.kind = "str"
      /\ Includes(ToLowerCase(value.items[1]), searchTerm)

MemFilterBySearchTerm(exps, p) ==
  IF IsSome(p.searchTerm) /\ Get(p.searchTerm) # << >>
    THEN SelectSeq(exps,
           LAMBDA exp : \/ MemCustomFieldsMatch(exp, ToLowerCase(Get(p.searchTerm)))
                        \/ TagNamesMatch(exp, ToLowerCase(Get(p.searchTerm))))
    ELSE exps

\* the value MemStorage.searchExperiences returns
MemSearch(allExperiences, p) ==
  MemFilterBySearchTerm(
    FilterByTags(
      FilterByEndDate(
        FilterByStartDate(allExperiences, p), p), p), p)

\* the stored objects after getExperiences: experience.tags = getExperienceTags(id)
MemAttachTags ==
  [i \in 1..Len(experiences) |->
     [experiences[i] EXCEPT !.tags = Some(GetExperienceTags(experiences[i].id))]]

MemSearchExperiences(p) ==
  /\ pc = "idle"
  /\ params' = p
  /\ experiences' = MemAttachTags
  /\ result' = MemSearch(GetExperiences, p)
  /\ pc' = "done"
  /\ UNCHANGED <<tags, experienceTags, storeVars>>
  /\ UNCHANGED <<columnVars, pageVars>>

(***************************************************************************)
(* The storage calls on experiences, tags and links. A call of MemStorage  *)
(* holds no await before its last write, so it runs as one step; a call of *)
(* DatabaseStorage is one step per statement it awaits, and the tables     *)
(* keep their constraints: the foreign keys of experience_tags (on delete  *)
(* cascade), its unique index on (experience_id, tag_id), and the unique   *)
(* constraint on tags.name. A serial id that a rejected insert has drawn   *)
(* is not given back.                                                      *)
(***************************************************************************)
\* what a storage call hands to its caller: the value it resolves to (an
\* object, absent for undefined), or the error it rejects with
Returns(op, value) == Some([op |-> op, value |-> value, thrown |-> FALSE])
Throws(op) == Some([op |-> op, value |-> None, thrown |-> TRUE])
\* a boolean result
Bool(b) == Some([success |-> b])

ExperienceIds == {experiences[i].id : i \in 1..Len(experiences)}
\* the rows of experience_tags (the values of MemStorage's Map) for a pair
LinksOf(links, experienceId, tagId) ==
  {l \in links : l.experienceId = experienceId /\ l.tagId = tagId}
\* Array.find / the first row of the select: the row with the least id
FirstOf(rows) == CHOOSE l \in rows : \A m \in rows : l.id <= m.id
\* the tags of a name
TagsNamed(table, name) == {t \in DOMAIN table : table[t] = name}
LeastOf(S) == CHOOSE x \in S : \A y \in S : x <= y

\* at most one storage call of each client has read and not yet written; the
\* calls under way will each draw an id
MayAwait == Len(calls) < Cardinality(Clients)
Without(s, i) == [j \in 1..(Len(s) - 1) |-> IF j < i THEN s[j] ELSE s[j + 1]]

\* the object createExperience stores: MemStorage spreads the insert data
\* (no tags property), DatabaseStorage inserts the row
NewExperience(id, content) ==
  IF storage = "MemStorage"
    THEN [id |-> id, startDate |-> content.startDate, endDate |-> content.endDate,
          customFields |-> content.customFields, tags |-> None]
    ELSE [id |-> id, startDate |-> content.startDate, endDate |-> content.endDate,
          customFields |-> content.customFields]

CreateExperience(content) ==
  /\ pc = "idle"
  /\ experienceCurrentId <= MaxExperiences
  /\ experiences' = Append(experiences, NewExperience(experienceCurrentId, content))
  /\ experienceCurrentId' = experienceCurrentId + 1
  /\ returned' = Returns("createExperience", Some([id |-> experienceCurrentId]))
  /\ UNCHANGED <<tags, experienceTags, params, result, pc,
                 tagCurrentId, experienceTagCurrentId, calls>>
  /\ UNCHANGED <<columnVars, pageVars>>

\* the links after deleteExperience: MemStorage deletes the relations of the
\* experience, the foreign key of experience_tags cascades
LinksAfterDeleteExperience(links, id) == {l \in links : l.experienceId # id}

DeleteExperience(id) ==
  /\ pc = "idle"
  /\ experienceTags' = LinksAfterDeleteExperience(experienceTags, id)
  /\ experiences' = SelectSeq(experiences, LAMBDA exp : exp.id # id)
  /\ returned' = Returns("deleteExperience", Bool(id \in ExperienceIds))
  /\ UNCHANGED <<tags, params, result, pc,
                 experienceCurrentId, tagCurrentId, experienceTagCurrentId, calls>>
  /\ UNCHANGED <<columnVars, pageVars>>

\* variant: no look for a tag of the name
ExistingTag_NoCheck(table, name) == None

\* getTagByName: the first tag of the name, if any
ExistingTag(table, name) ==
  IF TagsNamed(table, name) = {} THEN None
  ELSE Some([id |-> LeastOf(TagsNamed(table, name)), name |-> name])

\* the insert of createTag: the row is stored unless DatabaseStorage's unique
\* constraint on tags.name rejects it
InsertTagThrows(name) ==
  storage = "DatabaseStorage" /\ TagsNamed(tags, name) # {}

InsertTag(name) ==
  /\ tagCurrentId' = tagCurrentId + 1
  /\ IF InsertTagThrows(name)
       THEN tags' = tags /\ returned' = Throws("createTag")
       ELSE /\ tags' = (tagCurrentId :> name) @@ tags
            /\ returned' = Returns("createTag", Some([id |-> tagCurrentId, name |-> name]))

\* createTag up to its first await: MemStorage completes, DatabaseStorage has
\* the answer of its select
CreateTag(name) ==
  /\ pc = "idle"
  /\ IF IsSome(ExistingTag(tags, name))
       THEN /\ returned' = Returns("createTag", ExistingTag(tags, name))
            /\ UNCHANGED <<tags, tagCurrentId, calls>>
       ELSE IF storage = "MemStorage"
         THEN tagCurrentId <= MaxTag /\ InsertTag(name) /\ UNCHANGED calls
         ELSE /\ MayAwait /\ tagCurrentId + Len(calls) <= MaxTag
              /\ calls' = Append(calls, [op |-> "createTag", name |-> name])
              /\ returned' = None
              /\ UNCHANGED <<tags, tagCurrentId>>
  /\ UNCHANGED <<experiences, experienceTags, params, result, pc,
                 experienceCurrentId, experienceTagCurrentId>>
  /\ UNCHANGED <<columnVars, pageVars>>

\* the links after deleteTag
LinksAfterDeleteTag(links, id) == {l \in links : l.tagId # id}

DeleteTag(id) ==
  /\ pc = "idle"
  /\ experienceTags' = LinksAfterDeleteTag(experienceTags, id)
  /\ tags' = [t \in DOMAIN tags \ {id} |-> tags[t]]
  /\ returned' = Returns("deleteTag", Bool(id \in DOMAIN tags))
  /\ UNCHANGED <<experiences, params, result, pc,
                 experienceCurrentId, tagCurrentId, experienceTagCurrentId, calls>>
  /\ UNCHANGED <<columnVars, pageVars>>

\* the insert of addTagToExperience: DatabaseStorage's insert is rejected by a
\* foreign key without its row or by the unique index on the pair; MemStorage
\* sets the relation into its Map
ForeignKeyMissing(experienceIds, experienceId, tagId) ==
  experienceId \notin experienceIds \/ tagId \notin DOMAIN tags

InsertLinkThrows(experienceId, tagId) ==
  /\ storage = "DatabaseStorage"
  /\ \/ ForeignKeyMissing(ExperienceIds, experienceId, tagId)
     \/ LinksOf(experienceTags, experienceId, tagId) # {}

NewLink(experienceId, tagId) ==
  [id |-> experienceTagCurrentId, experienceId |-> experienceId, tagId |-> tagId]

InsertLink(experienceId, tagId) ==
  /\ experienceTagCurrentId' = experienceTagCurrentId + 1
  /\ IF InsertLinkThrows(experienceId, tagId)
       THEN experienceTags' = experienceTags /\ returned' = Throws("addTagToExperience")
       ELSE /\ experienceTags' = experienceTags \cup {NewLink(experienceId, tagId)}
            /\ returned' = Returns("addTagToExperience", Some(NewLink(experienceId, tagId)))

\* addTagToExperience up to its first await: MemStorage completes,
\* DatabaseStorage has the answer of its select
AddTagToExperience(experienceId, tagId) ==
  /\ pc = "idle"
  /\ IF LinksOf(experienceTags, experienceId, tagId) # {}
       THEN /\ returned' =
                 Returns("addTagToExperience",
                         Some(FirstOf(LinksOf(experienceTags, experienceId, tagId))))
            /\ UNCHANGED <<experienceTags, experienceTagCurrentId, calls>>
       ELSE IF storage = "MemStorage"
         THEN /\ experienceTagCurrentId <= MaxLinkId
              /\ InsertLink(experienceId, tagId) /\ UNCHANGED calls
         ELSE /\ MayAwait /\ experienceTagCurrentId + Len(calls) <= MaxLinkId
              /\ calls' = Append(calls, [op |-> "addTagToExperience",
                                         experienceId |-> experienceId, tagId |-> tagId])
              /\ returned' = None
              /\ UNCHANGED <<experienceTags, experienceTagCurrentId>>
  /\ UNCHANGED <<experiences, tags, params, result, pc,
                 experienceCurrentId, tagCurrentId>>
  /\ UNCHANGED <<columnVars, pageVars>>

\* the insert of a call of DatabaseStorage whose select found nothing
Insert(i) ==
  /\ pc = "idle"
  /\ calls' = Without(calls, i)
  /\ IF calls[i].op = "createTag"
       THEN InsertTag(calls[i].name) /\ UNCHANGED <<experienceTags, experienceTagCurrentId>>
       ELSE /\ InsertLink(calls[i].experienceId, calls[i].tagId)
            /\ UNCHANGED <<tags, tagCurrentId>>
  /\ UNCHANGED <<experiences, params, result, pc, experienceCurrentId>>
  /\ UNCHANGED <<columnVars, pageVars>>

\* the links after removeTagFromExperience: MemStorage deletes the relation it
\* found, DatabaseStorage every row of the pair
LinksAfterRemove(links, experienceId, tagId) ==
  IF LinksOf(links, experienceId, tagId) = {} THEN links
  ELSE IF storage = "MemStorage"
    THEN links \ {FirstOf(LinksOf(links, experienceId, tagId))}
    ELSE links \ LinksOf(links, experienceId, tagId)

RemoveTagFromExperience(experienceId, tagId) ==
  /\ pc = "idle"
  /\ experienceTags' = LinksAfterRemove(experienceTags, experienceId, tagId)
  /\ returned' =
       Returns("removeTagFromExperience",
               Bool(LinksOf(experienceTags, experienceId, tagId) # {}))
  /\ UNCHANGED <<experiences, tags, params, result, pc,
                 experienceCurrentId, tagCurrentId, experienceTagCurrentId, calls>>
  /\ UNCHANGED <<columnVars, pageVars>>

\* an empty store under either storage; experiences, tags and links are
\* created, linked and deleted by the storage calls
LinkContents == {Content(1, None, {}, NoFields)}
TagNames == {TagNamePool[t] : t \in 1..(MaxTag + 1)}
LinkInit ==
  /\ NoPageActivity
  /\ NoColumnActivity("MemStorage") \/ NoColumnActivity("DatabaseStorage")
  /\ experiences = << >>
  /\ tags = NoFields
  /\ experienceTags = {}
  /\ experienceCurrentId = 1
  /\ tagCurrentId = 1
  /\ experienceTagCurrentId = 1
  /\ calls = << >>
  /\ returned = None
  /\ params = EmptyParams
  /\ result = << >>
  /\ pc = "idle"
LinkNext ==
  \/ \E content \in LinkContents : CreateExperience(content)
  \/ \E id \in 1..MaxExperiences : DeleteExperience(id)
  \/ \E name \in TagNames : CreateTag(name)
  \/ \E id \in TagIds : DeleteTag(id)
  \/ \E e \in 1..MaxExperiences, t \in TagIds : AddTagToExperience(e, t)
  \/ \E e \in 1..MaxExperiences, t \in TagIds : RemoveTagFromExperience(e, t)
  \/ \E i \in 1..Len(calls) : Insert(i)
LinkSpec == LinkInit /\ [][LinkNext]_vars

\* the tag calls alone, on a store without experiences
NameNext ==
  \/ \E name \in TagNames : CreateTag(name)
  \/ \E id \in TagIds : DeleteTag(id)
  \/ \E i \in 1..Len(calls) : Insert(i)
NameSpec == LinkInit /\ [][NameNext]_vars

MemContents ==
  {Content(1, None, ts, cf) :
     ts \in {{}, {1}}, cf \in {NoFields, (KeyLower :> StrValue(Str1("A")))}}
MemParams ==
  {[EmptyParams EXCEPT !.startDate = sd, !.tagIds = ts, !.searchTerm = st] :
     sd \in {None, Some(NewDate(2))}, ts \in {None, Some({1})},
     st \in {None, Some(Str1("a"))}}

\* the store after createExperience and addTagToExperience calls
MemInit ==
  \E cs \in Collections(MemContents) :
    /\ NoPageActivity
    /\ NoColumnActivity("MemStorage")
    /\ experiences =
         [i \in 1..Len(cs) |->
            [id |-> i, startDate |-> cs[i].startDate, endDate |-> cs[i].endDate,
             customFields |-> cs[i].customFields, tags |-> None]]
    /\ experienceTags =
         UNION {{[id |-> LinkId(i, t), experienceId |-> i, tagId |-> t] :
                   t \in cs[i].tags} : i \in 1..Len(cs)}
    /\ StoreCounters(Len(cs))
    /\ tags = TagTable
    /\ params = EmptyParams
    /\ result = << >>
    /\ pc = "idle"
MemNext ==
  \/ \E p \in MemParams : MemSearchExperiences(p)
  \/ \E i \in 1..Len(experiences), t \in TagIds : AddTagToExperience(experiences[i].id, t)
  \/ \E i \in 1..Len(experiences), t \in TagIds : RemoveTagFromExperience(experiences[i].id, t)
  \/ Respond
MemSpec == MemInit /\ [][MemNext]_vars

(***************************************************************************)
(* The column form: generateColumnKey (client/src/lib/config.ts) and       *)
(* handleNameChange (client/src/components/column-form.tsx).               *)
(***************************************************************************)
\* no experience is stored and no search is in progress
NoExperienceActivity ==
  /\ experiences = << >>
  /\ tags = TagTable
  /\ experienceTags = {}
  /\ StoreCounters(0)
  /\ params = EmptyParams
  /\ result = << >>
  /\ pc = "idle"

\* the characters the class [a-z0-9] matches
LowerAlnum ==
  {"a", "b", "c", "d", "e", "f", "g", "h", "i", "j", "k", "l", "m",
   "n", "o", "p", "q", "r", "s", "t", "u", "v", "w", "x", "y", "z",
   "0", "1", "2", "3", "4", "5", "6", "7", "8", "9"}

\* s.replace(/[^a-z0-9]/g, ''): scan s, drop every character the class
\* [^a-z0-9] matches
RECURSIVE ReplaceNonAlnum(_)
ReplaceNonAlnum(s) ==
  IF s = << >> THEN << >>
  ELSE IF Head(s) \in LowerAlnum
    THEN <<Head(s)>> \o ReplaceNonAlnum(Tail(s))
    ELSE ReplaceNonAlnum(Tail(s))

\* String.prototype.trim
WhiteSpace == {" ", "\t", "\n"}
Trim(s) ==
  LET kept == {i \in 1..Len(s) : s[i] \notin WhiteSpace} IN
    IF kept = {} THEN << >>
    ELSE SubSeq(s, CHOOSE i \in kept : \A j \in kept : i <= j,
                   CHOOSE i \in kept : \A j \in kept : j <= i)

\* variant: no toLowerCase before the replace
GenerateColumnKey_NoLowerCase(name) == Trim(ReplaceNonAlnum(name))

GenerateColumnKey(name) == Trim(ReplaceNonAlnum(ToLowerCase(name)))

\* the form's onChange of the name input; column is the column being edited,
\* absent for a new column
HandleNameChange(name) ==
  /\ form' = [form EXCEPT !.name = name,
                          !.key = IF ~IsSome(form.column)
                                    THEN GenerateColumnKey(name) ELSE @]
  /\ UNCHANGED <<pageVars, storage, columns, columnCurrentId, response, sortedColumns,
                 requests, moves>>
  /\ UNCHANGED experienceVars

\* typed names: every string of at most MaxNameLen characters over an upper-case
\* letter, a lower-case letter, a digit, a space, punctuation and an
\* underscore, and the name "Client Name!!"
NameChars == {"C", "l", "5", " ", "!", "_"}
ClientName ==
  <<"C", "l", "i", "e", "n", "t", " ", "N", "a", "m", "e", "!", "!">>
Names == UNION {[1..n -> NameChars] : n \in 0..MaxNameLen} \cup {ClientName}

\* the form opened for a new column, or for the existing column "client"
KeyInit ==
  /\ NoExperienceActivity
  /\ NoPageActivity
  /\ storage = "DatabaseStorage"
  /\ columns = << >>
  /\ columnCurrentId = 1
  /\ response = None
  /\ sortedColumns = [c \in Clients |-> << >>]
  /\ requests = {}
  /\ moves = NoMoves
  /\ form \in {EmptyForm,
               [column |-> Some(1), name |-> <<"C", "l">>, key |-> <<"c", "l">>]}
KeyNext == \E name \in Names : HandleNameChange(name)
KeySpec == KeyInit /\ [][KeyNext]_vars

(***************************************************************************)
(* The column store behind the column routes (server/routes.ts): the       *)
(* columns of MemStorage's Map or of DatabaseStorage's columns table, as   *)
(* a function from column id to [key, order]; the other fields of a column *)
(* take no part in what is modelled here.                                  *)
(***************************************************************************)
ColumnKeys == {KeyLower, KeyOther}
Orders == 1..MaxOrder
\* the body of a create request: a key and an order that may be missing
InsertColumns == [key : ColumnKeys, order : Optional(Orders)]
\* the body of an update request: any part of the fields, at least one
PartialColumns ==
  [key : Optional(ColumnKeys), order : Optional(Orders)] \
    {[key |-> None, order |-> None]}
ImportLists == UNION {[1..n -> InsertColumns] : n \in 0..MaxImport}
\* the body of an import request: an array of columns, or a value for which
\* Array.isArray is false
Array(items) == [isArray |-> TRUE, items |-> items]
NotArray == [isArray |-> FALSE, items |-> << >>]
ImportBodies == {Array(items) : items \in ImportLists} \cup {NotArray}

OrdersOf(cols) == {cols[id].order : id \in DOMAIN cols}
\* Math.max(...columns.map(c => c.order))
MathMax(S) == CHOOSE x \in S : \A y \in S : y <= x

\* the unique constraint on columns.key: key is held by a row other than id
KeyTaken(cols, key, id) ==
  \E other \in DOMAIN cols \ {id} : cols[other].key = key

\* variant: the number of columns plus one
DefaultOrder_ByLength(cols) == Cardinality(DOMAIN cols) + 1

\* MemStorage.createColumn: the order of a column that brings none
DefaultOrder(cols) ==
  IF Cardinality(DOMAIN cols) > 0 THEN MathMax(OrdersOf(cols)) + 1 ELSE 1

\* storage.createColumn throws: the insert of DatabaseStorage violates the
\* unique constraint on key or the not-null constraint on order; MemStorage
\* compares no keys and fills in a missing order
CreateColumnThrows(cols, insertColumn) ==
  /\ storage = "DatabaseStorage"
  /\ \/ KeyTaken(cols, insertColumn.key, 0)
     \/ ~IsSome(insertColumn.order)

\* the columns after storage.createColumn has stored the column under id
CreateColumn(cols, id, insertColumn) ==
  [i \in DOMAIN cols \cup {id} |->
     IF i = id
       THEN [key |-> insertColumn.key,
             order |-> IF /\ storage = "MemStorage"
                          /\ (~IsSome(insertColumn.order) \/ Get(insertColumn.order) = 0)
                         THEN DefaultOrder(cols)
                         ELSE Get(insertColumn.order)]
       ELSE cols[i]]

\* storage.updateColumn throws: the update of DatabaseStorage violates the
\* unique constraint on key
UpdateColumnThrows(cols, id, columnData) ==
  /\ storage = "DatabaseStorage"
  /\ IsSome(columnData.key)
  /\ KeyTaken(cols, Get(columnData.key), id)

\* the columns after storage.updateColumn: { ...column, ...columnData }
UpdateColumn(cols, id, columnData) ==
  [cols EXCEPT ![id] =
     [key |-> IF IsSome(columnData.key) THEN Get(columnData.key) ELSE @.key,
      order |-> IF IsSome(columnData.order) THEN Get(columnData.order) ELSE @.order]]

\* storage.deleteColumn
DeleteColumn(cols, id) == [i \in DOMAIN cols \ {id} |-> cols[i]]

\* the loop of the import route over the columns of the body: it stops at the
\* first createColumn that throws; every call has drawn an id
RECURSIVE ImportFrom(_, _, _)
ImportFrom(cols, nextId, items) ==
  IF items = << >> THEN [columns |-> cols, nextId |-> nextId, thrown |-> FALSE]
  ELSE IF CreateColumnThrows(cols, Head(items))
    THEN [columns |-> cols, nextId |-> nextId + 1, thrown |-> TRUE]
    ELSE ImportFrom(CreateColumn(cols, nextId, Head(items)), nextId + 1, Tail(items))

Status(code) == Some([status |-> code])

\* POST /api/columns
PostColumn(columnData) ==
  /\ columnCurrentId <= MaxColumnId
  /\ IF ~IsSome(columnData.order)
       THEN /\ response' = Status(400)
            /\ UNCHANGED <<columns, columnCurrentId>>
       ELSE /\ columnCurrentId' = columnCurrentId + 1
            /\ IF CreateColumnThrows(columns, columnData)
                 THEN response' = Status(500) /\ UNCHANGED columns
                 ELSE /\ columns' = CreateColumn(columns, columnCurrentId, columnData)
                      /\ response' = Status(201)
  /\ UNCHANGED <<pageVars, storage, sortedColumns, requests, moves, form>>
  /\ UNCHANGED experienceVars

\* PATCH /api/columns/:id
PatchColumn(id, columnData) ==
  /\ IF id \notin DOMAIN columns
       THEN response' = Status(404) /\ UNCHANGED columns
       ELSE IF UpdateColumnThrows(columns, id, columnData)
         THEN response' = Status(500) /\ UNCHANGED columns
         ELSE /\ columns' = UpdateColumn(columns, id, columnData)
              /\ response' = Status(200)
  /\ UNCHANGED <<pageVars, storage, columnCurrentId, sortedColumns, requests, moves, form>>
  /\ UNCHANGED experienceVars

\* POST /api/columns/import
ImportColumns(body) ==
  /\ IF ~body.isArray
       THEN response' = Status(400) /\ UNCHANGED <<columns, columnCurrentId>>
       ELSE /\ columnCurrentId + Len(body.items) <= MaxColumnId + 1
            /\ LET imported == ImportFrom(<< >>, columnCurrentId, body.items) IN
                 /\ columns' = imported.columns
                 /\ columnCurrentId' = imported.nextId
                 /\ response' = IF imported.thrown THEN Status(500) ELSE Status(200)
  /\ UNCHANGED <<pageVars, storage, sortedColumns, requests, moves, form>>
  /\ UNCHANGED experienceVars

\* DELETE /api/columns/:id
DeleteColumnById(id) ==
  /\ IF id \in DOMAIN columns
       THEN columns' = DeleteColumn(columns, id) /\ response' = Status(204)
       ELSE response' = Status(404) /\ UNCHANGED columns
  /\ UNCHANGED <<pageVars, storage, columnCurrentId, sortedColumns, requests, moves, form>>
  /\ UNCHANGED experienceVars

\* an empty column store (a migrated table, or a store whose columns have all
\* been deleted), under either storage the server has been wired to
ColumnInit ==
  /\ NoExperienceActivity
  /\ NoPageActivity
  /\ storage \in {"MemStorage", "DatabaseStorage"}
  /\ columns = << >>
  /\ columnCurrentId = 1
  /\ response = None
  /\ sortedColumns = [c \in Clients |-> << >>]
  /\ requests = {}
  /\ moves = NoMoves
  /\ form = EmptyForm
ColumnNext ==
  \/ \E columnData \in InsertColumns : PostColumn(columnData)
  \/ \E id \in 1..MaxColumnId, columnData \in PartialColumns : PatchColumn(id, columnData)
  \/ \E body \in ImportBodies : ImportColumns(body)
  \/ \E id \in 1..MaxColumnId : DeleteColumnById(id)
ColumnSpec == ColumnInit /\ [][ColumnNext]_vars

\* the import route and the delete route alone: every column is created by
\* the loop of an import
OrderNext ==
  \/ \E items \in ImportLists : ImportColumns(Array(items))
  \/ \E id \in 1..MaxColumnId : DeleteColumnById(id)
OrderSpec == ColumnInit /\ [][OrderNext]_vars

(***************************************************************************)
(* The column configuration page (client/src/lib/config.ts) of each        *)
(* client: sortedColumns is the list the page shows, requests are the      *)
(* PATCH requests of updateColumn that the server has not handled yet, and *)
(* moves[c] counts the moves of client c, tells whether its query of the   *)
(* columns is fetching, and records its last move: the two columns, the    *)
(* requests sent, and, for the properties, the store as it was at the      *)
(* click, whether the list showed that store (fresh) and whether no other  *)
(* request has been handled during the move (alone).                       *)
(***************************************************************************)
\* the rows of GET /api/columns in the orders the sort by order allows
Listings(cols) ==
  LET rows == {[id |-> id, key |-> cols[id].key, order |-> cols[id].order] :
                 id \in DOMAIN cols}
      n == Cardinality(DOMAIN cols)
  IN {s \in [1..n -> rows] :
        /\ \A i, j \in 1..n : s[i] = s[j] => i = j
        /\ \A i, j \in 1..n : i < j => s[i].order <= s[j].order}

\* the number of moves the clients have made
MovesMade ==
  Cardinality({ck \in Clients \X (1..MaxMoves) : ck[2] <= moves[ck[1]].count})

\* the query ['/api/columns'] of useColumns, fetching since the page was
\* opened or since onSuccess of a mutation invalidated it, resolves and the
\* effect sets sortedColumns; once MaxMoves moves have been made no further
\* list is read
FetchColumns(c) ==
  /\ moves[c].fetching
  /\ MovesMade < MaxMoves
  /\ \E s \in Listings(columns) : sortedColumns' = [sortedColumns EXCEPT ![c] = s]
  /\ moves' = [moves EXCEPT ![c].fetching = FALSE]
  /\ UNCHANGED <<pageVars, storage, columns, columnCurrentId, response, requests, form>>
  /\ UNCHANGED experienceVars

\* isPending of updateColumnMutation: the mutation of the last mutate call,
\* the second update of a move, has not settled
IsPending(c) == \E r \in requests : r.client = c /\ r.n = 2

\* variant: both columns are sent the order of the neighbour
MoveRequests_SameOrder(c, column, other) ==
  {[client |-> c, id |-> column.id, order |-> other.order, n |-> 1],
   [client |-> c, id |-> other.id, order |-> other.order, n |-> 2]}

\* variant: the neighbour is sent an order next to its own
MoveRequests_Renumber(c, column, other) ==
  {[client |-> c, id |-> column.id, order |-> other.order, n |-> 1],
   [client |-> c, id |-> other.id, order |-> other.order + 1, n |-> 2]}

\* the two updateColumn calls of a move: column gets the order of the
\* neighbour, the neighbour the order of column, both as the list shows them
MoveRequests(c, column, other) ==
  {[client |-> c, id |-> column.id, order |-> other.order, n |-> 1],
   [client |-> c, id |-> other.id, order |-> column.order, n |-> 2]}

\* both requests leave; a request equal to one still in flight is not sent again
SendMove(c, column, other) ==
  /\ MovesMade < MaxMoves
  /\ MoveRequests(c, column, other) \cap requests = {}
  /\ requests' = requests \cup MoveRequests(c, column, other)
  /\ moves' = [moves EXCEPT ![c] =
       [count |-> @.count + 1,
        fetching |-> @.fetching,
        last |-> Some([id |-> column.id, other |-> other.id,
                       sent |-> MoveRequests(c, column, other),
                       before |-> columns,
                       fresh |-> sortedColumns[c] \in Listings(columns),
                       alone |-> TRUE])]]

\* the up button of row i of the list
MoveColumnUp(c, i) ==
  /\ i \in 1..Len(sortedColumns[c])
  /\ ~IsPending(c)
  /\ IF i <= 1
       THEN UNCHANGED <<requests, moves>>
       ELSE SendMove(c, sortedColumns[c][i], sortedColumns[c][i - 1])
  /\ UNCHANGED <<pageVars, storage, columns, columnCurrentId, response, sortedColumns, form>>
  /\ UNCHANGED experienceVars

\* the down button of row i of the list
MoveColumnDown(c, i) ==
  /\ i \in 1..Len(sortedColumns[c])
  /\ ~IsPending(c)
  /\ IF i >= Len(sortedColumns[c])
       THEN UNCHANGED <<requests, moves>>
       ELSE SendMove(c, sortedColumns[c][i], sortedColumns[c][i + 1])
  /\ UNCHANGED <<pageVars, storage, columns, columnCurrentId, response, sortedColumns, form>>
  /\ UNCHANGED experienceVars

\* a move of client c is under way: a request of it is in flight
InProgress(c) ==
  IsSome(moves[c].last) /\ Get(moves[c].last).sent \cap requests # {}

\* the server handles one PATCH /api/columns/:id of a move
HandlePatch(req) ==
  /\ req \in requests
  /\ requests' = requests \ {req}
  /\ IF req.id \notin DOMAIN columns
       THEN response' = Status(404) /\ UNCHANGED columns
       ELSE /\ columns' = UpdateColumn(columns, req.id,
                                       [key |-> None, order |-> Some(req.order)])
            /\ response' = Status(200)
  /\ moves' = [c \in Clients |->
       [count |-> moves[c].count,
        fetching |-> moves[c].fetching \/ (c = req.client /\ req.id \in DOMAIN columns),
        last |-> IF InProgress(c) /\ req \notin Get(moves[c].last).sent
                   THEN Some([Get(moves[c].last) EXCEPT !.alone = FALSE])
                   ELSE moves[c].last]]
  /\ UNCHANGED <<pageVars, storage, columnCurrentId, sortedColumns, form>>
  /\ UNCHANGED experienceVars

\* the keys of the columns of the move specifications
ColumnKeyPool == <<Str1("a"), Str1("b"), Str1("c")>>

\* a store of columns with the first n keys of the pool, created one after the
\* other with the orders 1..n; every client has opened the page and waits for
\* its list
MoveInit ==
  /\ NoExperienceActivity
  /\ NoPageActivity
  /\ storage = "DatabaseStorage"
  /\ \E n \in 1..Len(ColumnKeyPool) :
       /\ columns = [id \in 1..n |-> [key |-> ColumnKeyPool[id], order |-> id]]
       /\ columnCurrentId = n + 1
  /\ response = None
  /\ sortedColumns = [c \in Clients |-> << >>]
  /\ requests = {}
  /\ moves = [c \in Clients |-> [count |-> 0, last |-> None, fetching |-> TRUE]]
  /\ form = EmptyForm
MoveNext ==
  \/ \E c \in Clients : FetchColumns(c)
  \/ \E c \in Clients : \E i \in 1..Len(sortedColumns[c]) : MoveColumnUp(c, i)
  \/ \E c \in Clients : \E i \in 1..Len(sortedColumns[c]) : MoveColumnDown(c, i)
  \/ \E req \in requests : HandlePatch(req)
MoveSpec == MoveInit /\ [][MoveNext]_vars

(***************************************************************************)
(* The default columns. MemStorage's constructor creates them in one go;   *)
(* DatabaseStorage's constructor starts initializeDefaultColumns and does  *)
(* not await it: the select of the existing columns and each createColumn  *)
(* is a step of its own, and the column routes run in between. A server    *)
(* start constructs the storage anew, DatabaseStorage over the columns     *)
(* table as the last process left it.                                      *)
(***************************************************************************)
StartDateKey == <<"s", "t", "a", "r", "t", "D", "a", "t", "e">>
EndDateKey == <<"e", "n", "d", "D", "a", "t", "e">>
ClientKey == <<"c", "l", "i", "e", "n", "t">>
ProjectKey == <<"p", "r", "o", "j", "e", "c", "t">>
SkillsKey == <<"s", "k", "i", "l", "l", "s">>
NotesKey == <<"n", "o", "t", "e", "s">>

\* defaultColumns: the key and the order of each
DefaultColumns ==
  <<[key |-> StartDateKey, order |-> Some(1)], [key |-> EndDateKey, order |-> Some(2)],
    [key |-> ClientKey, order |-> Some(3)], [key |-> ProjectKey, order |-> Some(4)],
    [key |-> SkillsKey, order |-> Some(5)], [key |-> NotesKey, order |-> Some(6)]>>

\* variant: the defaults are created whatever the store holds
SeedingNeeded_Always(existingColumns) == TRUE

\* existingColumns.length === 0
SeedingNeeded(existingColumns) == DOMAIN existingColumns = {}

\* MemStorage.initializeDefaultColumns: defaultColumns.forEach(createColumn)
RECURSIVE SeedFrom(_, _, _)
SeedFrom(cols, nextId, k) ==
  IF k > Len(DefaultColumns) THEN cols
  ELSE SeedFrom(CreateColumn(cols, nextId, DefaultColumns[k]), nextId + 1, k + 1)

SeedCall(k) == [op |-> "initializeDefaultColumns", next |-> k]

\* the next statement of a running initializeDefaultColumns of DatabaseStorage:
\* the select (next = 0), or the createColumn of default column `next`; a
\* createColumn that throws ends the call
InitializeDefaultColumns(i) ==
  /\ calls[i].op = "initializeDefaultColumns"
  /\ LET k == calls[i].next IN
       IF k = 0
         THEN /\ IF SeedingNeeded(columns)
                   THEN calls' = [calls EXCEPT ![i] = SeedCall(1)] /\ returned' = None
                   ELSE /\ calls' = Without(calls, i)
                        /\ returned' = Returns("initializeDefaultColumns", None)
              /\ UNCHANGED <<columns, columnCurrentId>>
         ELSE /\ columnCurrentId' = columnCurrentId + 1
              /\ IF CreateColumnThrows(columns, DefaultColumns[k])
                   THEN /\ calls' = Without(calls, i)
                        /\ returned' = Throws("initializeDefaultColumns")
                        /\ UNCHANGED columns
                   ELSE /\ columns' = CreateColumn(columns, columnCurrentId, DefaultColumns[k])
                        /\ IF k < Len(DefaultColumns)
                             THEN calls' = [calls EXCEPT ![i] = SeedCall(k + 1)]
                                  /\ returned' = None
                             ELSE /\ calls' = Without(calls, i)
                                  /\ returned' = Returns("initializeDefaultColumns", None)
  /\ UNCHANGED <<experiences, tags, experienceTags, params, result, pc,
                 experienceCurrentId, tagCurrentId, experienceTagCurrentId>>
  /\ UNCHANGED <<pageVars, storage, response, sortedColumns, requests, moves, form>>

\* the server starts: new MemStorage() is a fresh store with the default
\* columns, new DatabaseStorage() starts initializeDefaultColumns over the
\* table; the calls of the process before are gone
Construct ==
  /\ columnCurrentId <= MaxColumnId
  /\ IF storage = "MemStorage"
       THEN /\ columns' = SeedFrom(<< >>, 1, 1)
            /\ columnCurrentId' = Len(DefaultColumns) + 1
            /\ calls' = << >>
       ELSE /\ calls' = <<SeedCall(0)>>
            /\ UNCHANGED <<columns, columnCurrentId>>
  /\ returned' = None
  /\ UNCHANGED <<experiences, tags, experienceTags, params, result, pc,
                 experienceCurrentId, tagCurrentId, experienceTagCurrentId>>
  /\ UNCHANGED <<pageVars, storage, response, sortedColumns, requests, moves, form>>

\* the bodies of the column requests sent while the defaults are created
SeedInserts == [key : {StartDateKey, ClientKey, KeyOther}, order : {Some(1)}]
SeedImports == UNION {[1..n -> SeedInserts] : n \in 0..1}

\* the state after construction: MemStorage holds the defaults; DatabaseStorage
\* has started initializeDefaultColumns over an empty table or over a table
\* with a column of an earlier run
SeedInit ==
  /\ NoPageActivity
  /\ experiences = << >>
  /\ tags = TagTable
  /\ experienceTags = {}
  /\ params = EmptyParams
  /\ result = << >>
  /\ pc = "idle"
  /\ experienceCurrentId = 1
  /\ tagCurrentId = MaxTag + 1
  /\ experienceTagCurrentId = 1
  /\ returned = None
  /\ response = None
  /\ sortedColumns = [c \in Clients |-> << >>]
  /\ requests = {}
  /\ moves = NoMoves
  /\ form = EmptyForm
  /\ \/ /\ storage = "MemStorage"
        /\ columns = SeedFrom(<< >>, 1, 1)
        /\ columnCurrentId = Len(DefaultColumns) + 1
        /\ calls = << >>
     \/ /\ storage = "DatabaseStorage"
        /\ calls = <<SeedCall(0)>>
        /\ \/ columns = << >> /\ columnCurrentId = 1
           \/ /\ columns = CreateColumn(<< >>, 1, [key |-> KeyOther, order |-> Some(1)])
              /\ columnCurrentId = 2
SeedNext ==
  \/ Construct
  \/ \E i \in 1..Len(calls) : InitializeDefaultColumns(i)
  \/ \E columnData \in SeedInserts : PostColumn(columnData)
  \/ \E items \in SeedImports : ImportColumns(Array(items))
SeedSpec == SeedInit /\ [][SeedNext]_vars

(***************************************************************************)
(* The experience and tag routes (server/routes.ts). A handler is one      *)
(* step: it awaits its storage calls one after the other, and what it      *)
(* throws ends in the status of its catch block.                           *)
(***************************************************************************)
\* the loop `for (const tagId of ...) await storage.addTagToExperience(id,
\* tagId)`: it stops at the first call that throws; experienceIds are the
\* experiences stored when the loop runs
RECURSIVE AddTags(_, _, _, _, _)
AddTags(links, nextId, experienceIds, experienceId, tagIds) ==
  IF tagIds = << >> THEN [links |-> links, nextId |-> nextId, thrown |-> FALSE]
  ELSE IF LinksOf(links, experienceId, Head(tagIds)) # {}
    THEN AddTags(links, nextId, experienceIds, experienceId, Tail(tagIds))
  ELSE IF storage = "DatabaseStorage"
          /\ ForeignKeyMissing(experienceIds, experienceId, Head(tagIds))
    THEN [links |-> links, nextId |-> nextId + 1, thrown |-> TRUE]
  ELSE AddTags(links \cup {[id |-> nextId, experienceId |-> experienceId,
                            tagId |-> Head(tagIds)]},
               nextId + 1, experienceIds, experienceId, Tail(tagIds))

\* the loop over tagsToRemove
RECURSIVE RemoveTags(_, _, _)
RemoveTags(links, experienceId, tagIds) ==
  IF tagIds = {} THEN links
  ELSE RemoveTags(LinksAfterRemove(links, experienceId, LeastOf(tagIds)),
                  experienceId, tagIds \ {LeastOf(tagIds)})

Elements(s) == {s[i] : i \in 1..Len(s)}

\* variant: the tags of the body are added, none is removed
TagsToRemove_None(currentTagIds, tagIds) == {}

\* currentTagIds.filter(tagId => !experienceData.tags.includes(tagId))
TagsToRemove(currentTagIds, tagIds) == currentTagIds \ Elements(tagIds)

\* the links after the tag update of PATCH /api/experiences/:id
UpdateTags(links, nextId, experienceId, tagIds) ==
  LET currentTagIds == {t.id : t \in ExperienceTagsIn(links, experienceId)}
      added == AddTags(links, nextId, ExperienceIds, experienceId,
                       SelectSeq(tagIds, LAMBDA t : t \notin currentTagIds))
  IN IF added.thrown THEN added
     ELSE [added EXCEPT !.links =
             RemoveTags(@, experienceId, TagsToRemove(currentTagIds, tagIds))]

\* the stored experiences after getExperience(id): MemStorage sets the tags it
\* resolves into the stored object
AttachTags(exps, links, id) ==
  IF storage = "MemStorage"
    THEN [i \in 1..Len(exps) |->
            IF exps[i].id = id
              THEN [exps[i] EXCEPT !.tags = Some(ExperienceTagsIn(links, id))]
              ELSE exps[i]]
    ELSE exps

\* the stored experiences after updateExperience(id, data)
UpdateExperience(exps, id, data) ==
  [i \in 1..Len(exps) |->
     IF exps[i].id = id
       THEN [exps[i] EXCEPT !.startDate = data.startDate, !.endDate = data.endDate,
                            !.customFields = data.customFields]
       ELSE exps[i]]

\* `if (!experience)` after getExperience / updateExperience
ExperienceFound(id) == id \in ExperienceIds

\* GET /api/experiences/:id
GetExperienceById(id) ==
  /\ pc = "idle"
  /\ IF ExperienceFound(id)
       THEN /\ experiences' = AttachTags(experiences, experienceTags, id)
            /\ response' = Status(200)
       ELSE response' = Status(404) /\ UNCHANGED experiences
  /\ UNCHANGED <<tags, experienceTags, params, result, pc, storeVars>>
  /\ UNCHANGED <<pageVars, storage, columns, columnCurrentId, sortedColumns, requests, moves, form>>

\* POST /api/experiences
PostExperience(body) ==
  /\ pc = "idle"
  /\ experienceCurrentId <= MaxExperiences
  /\ experienceCurrentId' = experienceCurrentId + 1
  /\ LET id == experienceCurrentId
         created == Append(experiences, NewExperience(id, body.data))
         added == AddTags(experienceTags, experienceTagCurrentId,
                          ExperienceIds \cup {id}, id,
                          IF IsSome(body.tags) THEN Get(body.tags) ELSE << >>)
     IN /\ added.nextId <= MaxLinkId + 1
        /\ experienceTags' = added.links
        /\ experienceTagCurrentId' = added.nextId
        /\ IF added.thrown
             THEN experiences' = created /\ response' = Status(500)
             ELSE /\ experiences' = AttachTags(created, added.links, id)
                  /\ response' = Status(201)
  /\ UNCHANGED <<tags, params, result, pc, tagCurrentId, calls, returned>>
  /\ UNCHANGED <<pageVars, storage, columns, columnCurrentId, sortedColumns, requests, moves, form>>

\* PATCH /api/experiences/:id
PatchExperience(id, body) ==
  /\ pc = "idle"
  /\ IF ~ExperienceFound(id)
       THEN /\ response' = Status(404)
            /\ UNCHANGED <<experiences, experienceTags, experienceTagCurrentId>>
       ELSE LET updated ==
                  UpdateExperience(AttachTags(experiences, experienceTags, id), id, body.data)
                changed ==
                  IF IsSome(body.tags)
                    THEN UpdateTags(experienceTags, experienceTagCurrentId, id, Get(body.tags))
                    ELSE [links |-> experienceTags, nextId |-> experienceTagCurrentId,
                          thrown |-> FALSE]
            IN /\ changed.nextId <= MaxLinkId + 1
               /\ experienceTags' = changed.links
               /\ experienceTagCurrentId' = changed.nextId
               /\ IF changed.thrown
                    THEN experiences' = updated /\ response' = Status(500)
                    ELSE /\ experiences' = AttachTags(updated, changed.links, id)
                         /\ response' = Status(200)
  /\ UNCHANGED <<tags, params, result, pc, experienceCurrentId, tagCurrentId, calls, returned>>
  /\ UNCHANGED <<pageVars, storage, columns, columnCurrentId, sortedColumns, requests, moves, form>>

\* DELETE /api/experiences/:id
DeleteExperienceById(id) ==
  /\ pc = "idle"
  /\ experienceTags' = LinksAfterDeleteExperience(experienceTags, id)
  /\ experiences' = SelectSeq(experiences, LAMBDA exp : exp.id # id)
  /\ response' = IF id \in ExperienceIds THEN Status(204) ELSE Status(404)
  /\ UNCHANGED <<tags, params, result, pc, storeVars>>
  /\ UNCHANGED <<pageVars, storage, columns, columnCurrentId, sortedColumns, requests, moves, form>>

\* POST /api/tags
PostTag(name) ==
  /\ pc = "idle"
  /\ IF IsSome(ExistingTag(tags, name))
       THEN UNCHANGED <<tags, tagCurrentId>>
       ELSE /\ tagCurrentId <= MaxTag
            /\ tags' = (tagCurrentId :> name) @@ tags
            /\ tagCurrentId' = tagCurrentId + 1
  /\ response' = Status(201)
  /\ UNCHANGED <<experiences, experienceTags, params, result, pc,
                 experienceCurrentId, experienceTagCurrentId, calls, returned>>
  /\ UNCHANGED <<pageVars, storage, columns, columnCurrentId, sortedColumns, requests, moves, form>>

\* DELETE /api/tags/:id
DeleteTagById(id) ==
  /\ pc = "idle"
  /\ experienceTags' = LinksAfterDeleteTag(experienceTags, id)
  /\ tags' = [t \in DOMAIN tags \ {id} |-> tags[t]]
  /\ response' = IF id \in DOMAIN tags THEN Status(204) ELSE Status(404)
  /\ UNCHANGED <<experiences, params, result, pc, storeVars>>
  /\ UNCHANGED <<pageVars, storage, columns, columnCurrentId, sortedColumns, requests, moves, form>>

\* the bodies of the experience requests: the fields the experience form
\* sends, and a tags list, which a body may lack
RouteContents == {Content(sd, None, {}, NoFields) : sd \in {1, 2}}
\* the tags field of a body: ids of stored tags and an id of no tag, an id
\* twice, no id
TagLists == UNION {[1..n -> 1..(MaxTag + 1)] : n \in 0..2}
ExperienceBodies == [data : RouteContents, tags : Optional(TagLists)]

\* the routes with an id in their path, on a store with one column that the
\* create routes of experiences and tags fill: the requests name ids of stored
\* and of missing rows
RouteBodies == [data : RouteContents, tags : {None, Some(<<1>>)}]
RoutePatches == [key : {None}, order : {Some(MaxOrder)}]
RouteInit ==
  /\ NoPageActivity
  /\ storage \in {"MemStorage", "DatabaseStorage"}
  /\ columns = CreateColumn(<< >>, 1, [key |-> KeyLower, order |-> Some(1)])
  /\ columnCurrentId = 2
  /\ response = None
  /\ sortedColumns = [c \in Clients |-> << >>]
  /\ requests = {}
  /\ moves = NoMoves
  /\ form = EmptyForm
  /\ experiences = << >>
  /\ tags = NoFields
  /\ experienceTags = {}
  /\ experienceCurrentId = 1
  /\ tagCurrentId = 1
  /\ experienceTagCurrentId = 1
  /\ calls = << >>
  /\ returned = None
  /\ params = EmptyParams
  /\ result = << >>
  /\ pc = "idle"
RouteNext ==
  \/ \E body \in RouteBodies : PostExperience(body)
  \/ \E id \in 1..MaxExperiences, body \in RouteBodies : PatchExperience(id, body)
  \/ \E id \in 1..MaxExperiences : DeleteExperienceById(id)
  \/ \E id \in 1..MaxExperiences : GetExperienceById(id)
  \/ \E name \in TagNames : PostTag(name)
  \/ \E id \in TagIds : DeleteTagById(id)
  \/ \E id \in 1..MaxColumnId, columnData \in RoutePatches : PatchColumn(id, columnData)
  \/ \E id \in 1..MaxColumnId : DeleteColumnById(id)
RouteSpec == RouteInit /\ [][RouteNext]_vars

(***************************************************************************)
(* The Home page: the experiences query, the filter sidebar that delivers  *)
(* a search result through onFilter, and the experience table with its     *)
(* search box and pagination.                                              *)
(***************************************************************************)
ItemsPerPage == 5
MaxRows == 6

\* useQuery(['/api/experiences']) has its data: GET /api/experiences without
\* query parameters answers storage.getExperiences()
QueryExperiences ==
  /\ pc = "idle"
  /\ home' = [home EXCEPT !.experiences = GetExperiences]
  /\ experiences' = IF storage = "MemStorage" THEN MemAttachTags ELSE experiences
  /\ UNCHANGED <<tags, experienceTags, params, result, pc, storeVars>>
  /\ UNCHANGED <<columnVars, experienceTable>>

\* applyFilters and clearFilters after the answer of POST
\* /api/experiences/search: onFilter(filtered) is Home's handleFilter
HandleFilter ==
  /\ pc = "done"
  /\ home' = [home EXCEPT !.filteredExperiences = result]
  /\ params' = EmptyParams
  /\ result' = << >>
  /\ pc' = "idle"
  /\ UNCHANGED <<experiences, tags, experienceTags, storeVars>>
  /\ UNCHANGED <<columnVars, experienceTable>>

\* the catch block of applyFilters: a toast, onFilter is not called
FilterError == pc = "failed" /\ Respond

\* Home's displayedExperiences, the experiences prop of the table
DisplayedExperiences(h) ==
  IF Len(h.filteredExperiences) > 0 THEN h.filteredExperiences ELSE h.experiences

\* the table's filteredExperiences: the rows that match its search box
FilteredExperiences(exps, term) ==
  IF term = << >> THEN exps
  ELSE SelectSeq(exps,
         LAMBDA exp : \/ MemCustomFieldsMatch(exp, ToLowerCase(term))
                      \/ TagNamesMatch(exp, ToLowerCase(term)))

\* Math.max(1, Math.ceil(n / itemsPerPage))
TotalPages(n) ==
  IF (n + ItemsPerPage - 1) \div ItemsPerPage > 1
    THEN (n + ItemsPerPage - 1) \div ItemsPerPage ELSE 1

\* filteredExperiences.slice((page - 1) * itemsPerPage, page * itemsPerPage)
PaginatedExperiences(rows, page) ==
  [i \in 1..(IF Len(rows) - (page - 1) * ItemsPerPage > ItemsPerPage THEN ItemsPerPage
             ELSE IF Len(rows) - (page - 1) * ItemsPerPage > 0
               THEN Len(rows) - (page - 1) * ItemsPerPage ELSE 0) |->
     rows[(page - 1) * ItemsPerPage + i]]

Rows == FilteredExperiences(DisplayedExperiences(home), experienceTable.searchTerm)
\* the pagination bar is rendered: !isLoading && filteredExperiences.length > 0
PaginationShown == Len(Rows) > 0

\* setPage(p => Math.max(1, p - 1))
PaginationPrevious ==
  /\ PaginationShown
  /\ experienceTable' =
       [experienceTable EXCEPT
          !.page = IF experienceTable.page - 1 > 1 THEN experienceTable.page - 1 ELSE 1]
  /\ UNCHANGED <<experienceVars, columnVars, home>>

\* setPage(p => Math.min(totalPages, p + 1))
PaginationNext ==
  /\ PaginationShown
  /\ experienceTable' =
       [experienceTable EXCEPT
          !.page = IF experienceTable.page + 1 < TotalPages(Len(Rows))
                     THEN experienceTable.page + 1 ELSE TotalPages(Len(Rows))]
  /\ UNCHANGED <<experienceVars, columnVars, home>>

\* the page number of the i-th link (i from 0)
PageNum(i, page, totalPages) ==
  IF totalPages <= 5 THEN i + 1
  ELSE IF page <= 3 THEN i + 1
  ELSE IF page >= totalPages - 2 THEN totalPages - 4 + i
  ELSE page - 2 + i

\* setPage(pageNum) of one of the Math.min(totalPages, 5) links
PaginationLink(i) ==
  /\ PaginationShown
  /\ i < TotalPages(Len(Rows)) /\ i < 5
  /\ experienceTable' =
       [experienceTable EXCEPT
          !.page = PageNum(i, experienceTable.page, TotalPages(Len(Rows)))]
  /\ UNCHANGED <<experienceVars, columnVars, home>>

\* onChange of the search box: setSearchTerm(e.target.value)
SetSearchTerm(term) ==
  /\ experienceTable' = [experienceTable EXCEPT !.searchTerm = term]
  /\ UNCHANGED <<experienceVars, columnVars, home>>

\* stored experiences with and without a matching field, filters that match
\* some, all and none of them, and one whose evaluation throws
HomeBags ==
  {NoFields, (KeyLower :> StrValue(Str1("A"))), (KeyLower :> NumSeqValue(<<Str1("5")>>))}
HomeContents == {Content(1, None, {}, cf) : cf \in HomeBags}
\* the filters applyFilters sends: an empty field is left out
HomeParams ==
  {[EmptyParams EXCEPT !.searchTerm = st] : st \in {None, Some(Str1("a")), Some(Str1("c"))}}
HomeInit == InitStore(HomeContents)
HomeNext ==
  \/ QueryExperiences
  \/ \E p \in HomeParams : SearchExperiences(p)
  \/ HandleFilter
  \/ FilterError
HomeSpec == HomeInit /\ [][HomeNext]_vars

\* up to MaxRows stored experiences, the first m of them with a field that
\* matches the search box; rows are deleted, the query refetches, the search
\* box is edited and the pagination is clicked
TableRow(i, m) ==
  [id |-> i, startDate |-> 1, endDate |-> None,
   customFields |-> IF i <= m THEN (KeyLower :> StrValue(Str1("A"))) ELSE NoFields]
TableTerms == {<< >>, Str1("a"), Str1("c")}
TableInit ==
  \E n \in 0..MaxRows : \E m \in 0..n :
    /\ NoPageActivity
    /\ NoColumnActivity("DatabaseStorage")
    /\ experiences = [i \in 1..n |-> TableRow(i, m)]
    /\ experienceTags = {}
    /\ StoreCounters(n)
    /\ tags = TagTable
    /\ params = EmptyParams
    /\ result = << >>
    /\ pc = "idle"
TableNext ==
  \/ QueryExperiences
  \/ \E id \in 1..MaxRows : DeleteExperienceById(id)
  \/ \E term \in TableTerms : SetSearchTerm(term)
  \/ PaginationPrevious
  \/ PaginationNext
  \/ \E i \in 0..4 : PaginationLink(i)
TableSpec == TableInit /\ [][TableNext]_vars

\* PATCH /api/experiences/:id on stored experiences without links, under
\* either storage, with the tags of TagTable stored
PatchInit ==
  \E n \in 0..MaxExperiences :
    /\ NoPageActivity
    /\ NoColumnActivity("MemStorage") \/ NoColumnActivity("DatabaseStorage")
    /\ experiences =
         [i \in 1..n |-> NewExperience(i, Content(1, None, {}, NoFields))]
    /\ tags = TagTable
    /\ experienceTags = {}
    /\ experienceCurrentId = n + 1
    /\ tagCurrentId = MaxTag + 1
    /\ experienceTagCurrentId = 1
    /\ calls = << >>
    /\ returned = None
    /\ params = EmptyParams
    /\ result = << >>
    /\ pc = "idle"
PatchNext ==
  \/ \E id \in 1..MaxExperiences, body \in ExperienceBodies : PatchExperience(id, body)
  \/ \E id \in 1..MaxExperiences : GetExperienceById(id)
PatchSpec == PatchInit /\ [][PatchNext]_vars

(***************************************************************************)
(* Properties.                                                             *)
(***************************************************************************)
\* x is an element of the sequence s
InSeq(x, s) == \E i \in 1..Len(s) : s[i] = x

\* s is t with some elements left out: same elements, same relative order
IsSubsequence(s, t) ==
  \E f \in [1..Len(s) -> 1..Len(t)] :
    /\ \A i \in 1..Len(s) : s[i] = t[f[i]]
    /\ \A i, j \in 1..Len(s) : i < j => f[i] < f[j]

\* the tag ids linked to an experience in the store
LinkedTagIds(experienceId) ==
  {l.tagId : l \in {x \in experienceTags : x.experienceId = experienceId}}

\* C1: a call with the empty filter specification returns exactly the stored
\* collection: every record, none twice, in the same order.
C1_EmptyFilterIsIdentity ==
  (pc = "done" /\ params = EmptyParams) => result = GetExperiences

C1_Witness ==
  /\ pc = "done"
  /\ params = EmptyParams
  /\ Len(result) = 2
  /\ result[1].startDate # result[2].startDate
  /\ result[1].tags # result[2].tags

\* C2: the result is the intersection, in input order, of the results of the
\* five categories applied alone; a record that one active category rejects is
\* not returned.
C2_ResultIsIntersection ==
  pc = "done" =>
    LET all == GetExperiences
        byStartDate == Search(all, OnlyStartDate(params))
        byEndDate == Search(all, OnlyEndDate(params))
        byTagIds == Search(all, OnlyTagIds(params))
        byDropdown == Search(all, OnlyDropdown(params))
        bySearchTerm == Search(all, OnlySearchTerm(params))
    IN result =
         SelectSeq(all,
           LAMBDA exp :
             /\ InSeq(exp, byStartDate)
             /\ InSeq(exp, byEndDate)
             /\ InSeq(exp, byTagIds)
             /\ InSeq(exp, byDropdown)
             /\ InSeq(exp, bySearchTerm))

\* all five categories active, one record passes them all, the other fails
\* the tag category only
C2_Witness ==
  /\ pc = "done"
  /\ IsSome(params.startDate) /\ IsSome(params.endDate) /\ IsSome(params.tagIds)
  /\ IsSome(params.dropdownFilters) /\ IsSome(params.searchTerm)
  /\ Len(experiences) = 2
  /\ Len(result) = 1
  /\ \E exp \in {GetExperiences[i] : i \in 1..Len(experiences)} :
       /\ ~InSeq(exp, result)
       /\ InSeq(exp, Search(GetExperiences, [params EXCEPT !.tagIds = None]))

\* C3: the result is a subsequence of the stored collection: only stored
\* records, each at most once, in their original relative order.
C3_ResultIsSubsequence ==
  pc = "done" => IsSubsequence(result, GetExperiences)

C3_Witness ==
  /\ pc = "done"
  /\ IsSome(params.startDate)
  /\ IsSome(params.searchTerm)
  /\ Len(result) = 2
  /\ result[1].id = 1
  /\ result[2].id = 2

\* the day of a filter date
DayOf(date) == CHOOSE d \in Days : NewDate(d) = date

\* C4: with a startDate filter d alone, the result is exactly the experiences
\* whose startDate is on or after d, in input order.
C4_StartDateOnOrAfter ==
  (pc = "done" /\ IsSome(params.startDate) /\ params = OnlyStartDate(params)) =>
    result =
      SelectSeq(GetExperiences,
        LAMBDA exp : exp.startDate >= DayOf(Get(params.startDate)))

\* a record that starts on d is kept, one that starts the day before is not
C4_Witness ==
  /\ pc = "done"
  /\ IsSome(params.startDate)
  /\ params = OnlyStartDate(params)
  /\ Len(experiences) = 2
  /\ experiences[1].startDate = DayOf(Get(params.startDate)) - 1
  /\ experiences[2].startDate = DayOf(Get(params.startDate))
  /\ Len(result) = 1
  /\ result[1].id = 2

\* C5: with an endDate filter d alone, the result is exactly the experiences
\* whose endDate is absent or on or before d; and whatever else the filter
\* holds, adding an endDate never removes an experience without endDate.
C5_EndDateAbsentOrOnOrBefore ==
  (pc = "done" /\ IsSome(params.endDate)) =>
    /\ params = OnlyEndDate(params) =>
         result =
           SelectSeq(GetExperiences,
             LAMBDA exp :
               \/ exp.endDate = None
               \/ Get(exp.endDate) <= DayOf(Get(params.endDate)))
    /\ \A i \in 1..Len(experiences) :
         (/\ GetExperiences[i].endDate = None
          /\ InSeq(GetExperiences[i],
               Search(GetExperiences, [params EXCEPT !.endDate = None])))
           => InSeq(GetExperiences[i], result)

\* an open-ended record is kept, one that ends the day after d is not
C5_Witness ==
  /\ pc = "done"
  /\ IsSome(params.endDate)
  /\ params = OnlyEndDate(params)
  /\ Len(experiences) = 2
  /\ experiences[1].endDate = Some(DayOf(Get(params.endDate)) + 1)
  /\ experiences[2].endDate = None
  /\ Len(result) = 1
  /\ result[1].id = 2

\* C6: tagIds = {t} keeps exactly the experiences linked to t; tagIds = T keeps
\* the union, in input order, of what each {t}, t in T, keeps; an experience
\* without tags is in no result of a non-empty tagIds.
C6_TagIdsUnion ==
  (/\ pc = "done"
   /\ params = OnlyTagIds(params)
   /\ IsSome(params.tagIds)
   /\ Get(params.tagIds) # {}) =>
    /\ \A t \in TagIds :
         Get(params.tagIds) = {t} =>
           result = SelectSeq(GetExperiences, LAMBDA exp : t \in LinkedTagIds(exp.id))
    /\ result =
         SelectSeq(GetExperiences,
           LAMBDA exp :
             \E t \in Get(params.tagIds) :
               InSeq(exp, Search(GetExperiences, [EmptyParams EXCEPT !.tagIds = Some({t})])))
    /\ \A i \in 1..Len(result) : LinkedTagIds(result[i].id) # {}

\* two tags selected: a record with only the first and a record with only the
\* second are both returned
C6_Witness ==
  /\ pc = "done"
  /\ params = OnlyTagIds(params)
  /\ params.tagIds = Some({1, 2})
  /\ Len(result) = 2
  /\ LinkedTagIds(result[1].id) = {2}
  /\ LinkedTagIds(result[2].id) = {1}

\* the call filters on dropdownFilters alone, with the single entry k: selected
OneKeyDropdown(k) ==
  /\ pc = "done"
  /\ params = OnlyDropdown(params)
  /\ IsSome(params.dropdownFilters)
  /\ DOMAIN Get(params.dropdownFilters) = {k}
  /\ Get(params.dropdownFilters)[k] # {}

Selected(k) == Get(params.dropdownFilters)[k]

\* the value stored in customFields under exactly k, absent or present
StoredUnder(exp, k) ==
  IF k \in DOMAIN exp.customFields THEN Some(exp.customFields[k]) ELSE None

\* a stored sequence and a selection share an option, letter case ignored
SharesOption(value, selectedValues) ==
  \E selected \in selectedValues :
    \E i \in 1..Len(value.items) :
      ToLowerCase(value.items[i]) = ToLowerCase(selected)

\* C7: dropdownFilters with several keys keeps the intersection of what each
\* key keeps alone; for one key whose stored value is a sequence, the record is
\* kept exactly when the sequence and the selection share an option, letter
\* case ignored.
C7_DropdownAndAcrossKeysOrWithin ==
  (/\ pc = "done"
   /\ params = OnlyDropdown(params)
   /\ IsSome(params.dropdownFilters)) =>
    /\ result =
         SelectSeq(GetExperiences,
           LAMBDA exp :
             \A k \in DOMAIN Get(params.dropdownFilters) :
               InSeq(exp,
                 Search(GetExperiences,
                   [EmptyParams EXCEPT
                      !.dropdownFilters = Some((k :> Get(params.dropdownFilters)[k]))])))
    /\ \A k \in Keys :
         OneKeyDropdown(k) =>
           \A i \in 1..Len(experiences) :
             LET exp == GetExperiences[i] IN
               (IsSome(StoredUnder(exp, k)) /\ IsArray(Get(StoredUnder(exp, k)))) =>
                 (InSeq(exp, result) <=> SharesOption(Get(StoredUnder(exp, k)), Selected(k)))

\* C7 for the keys without upper-case letters
C7_LowerCaseKeys ==
  (/\ pc = "done"
   /\ IsSome(params.dropdownFilters)
   /\ \A k \in DOMAIN Get(params.dropdownFilters) : ToLowerCase(k) = k) =>
    C7_DropdownAndAcrossKeysOrWithin

\* C8: whatever the letter case of the key k, an experience whose
\* customFields[k] equals a selected option is kept.
C8_KeyUsedAsStored ==
  \A k \in Keys :
    OneKeyDropdown(k) =>
      \A i \in 1..Len(experiences) :
        LET exp == GetExperiences[i] IN
          (/\ IsSome(StoredUnder(exp, k))
           /\ ~IsArray(Get(StoredUnder(exp, k)))
           /\ Get(StoredUnder(exp, k)).items[1] \in Selected(k))
            => InSeq(exp, result)

\* C8 for the keys without upper-case letters
C8_LowerCaseKeys ==
  \A k \in Keys :
    (OneKeyDropdown(k) /\ ToLowerCase(k) = k) => C8_KeyUsedAsStored

\* C9: for a key whose stored value is a scalar string, the record is kept
\* exactly when the scalar equals a selected option, letter case ignored.
C9_ScalarEqualsSelected ==
  \A k \in Keys :
    OneKeyDropdown(k) =>
      \A i \in 1..Len(experiences) :
        LET exp == GetExperiences[i] IN
          (IsSome(StoredUnder(exp, k)) /\ ~IsArray(Get(StoredUnder(exp, k)))) =>
            (InSeq(exp, result) <=>
               \E selected \in Selected(k) :
                 ToLowerCase(Get(StoredUnder(exp, k)).items[1]) = ToLowerCase(selected))

\* C9 for the keys without upper-case letters
C9_LowerCaseKeys ==
  \A k \in Keys :
    (OneKeyDropdown(k) /\ ToLowerCase(k) = k) => C9_ScalarEqualsSelected

\* C10: for a key with a non-empty selection, an experience with no value, an
\* empty string or an empty sequence under that key is not returned.
C10_MissingValueExcluded ==
  (/\ pc = "done"
   /\ params = OnlyDropdown(params)
   /\ IsSome(params.dropdownFilters)) =>
    \A k \in DOMAIN Get(params.dropdownFilters) :
      Get(params.dropdownFilters)[k] # {} =>
        \A i \in 1..Len(experiences) :
          LET exp == GetExperiences[i] IN
            (\/ ~IsSome(StoredUnder(exp, k))
             \/ Get(StoredUnder(exp, k)).items = << >>
             \/ Get(StoredUnder(exp, k)).items = << << >> >>)
              => ~InSeq(exp, result)

\* C10 for the keys without upper-case letters
C10_LowerCaseKeys ==
  (/\ pc = "done"
   /\ IsSome(params.dropdownFilters)
   /\ \A k \in DOMAIN Get(params.dropdownFilters) : ToLowerCase(k) = k) =>
    C10_MissingValueExcluded

\* the strings stored in an experience's customFields: every scalar and every
\* element of every sequence
StoredStrings(exp) ==
  UNION {{exp.customFields[k].items[i] : i \in 1..Len(exp.customFields[k].items)} :
           k \in DOMAIN exp.customFields}

\* the collection with every stored string and every tag name in lower case
LowerCased(exps) ==
  [n \in 1..Len(exps) |->
     [exps[n] EXCEPT
        !.customFields =
          [k \in DOMAIN exps[n].customFields |->
             [kind |-> exps[n].customFields[k].kind,
              items |-> [i \in 1..Len(exps[n].customFields[k].items) |->
                           ToLowerCase(exps[n].customFields[k].items[i])]]],
        !.tags = {[id |-> tag.id, name |-> ToLowerCase(tag.name)] : tag \in exps[n].tags}]]

Ids(exps) == [n \in 1..Len(exps) |-> exps[n].id]

C12_SearchNeverFails ==
  /\ pc # "failed"
  /\ \A k \in Keys :
       OneKeyDropdown(k) =>
         \A i \in 1..Len(experiences) :
           LET exp == GetExperiences[i] IN
             (IsSome(StoredUnder(exp, k)) /\ Get(StoredUnder(exp, k)).kind = "num") =>
               (InSeq(exp, result) <=>
                  Get(StoredUnder(exp, k)).items[1] \in Selected(k))

\* the filter p with its empty fields removed: tagIds [], searchTerm "",
\* dropdownFilters entries with no selected option, dropdownFilters {}
WithoutEmpty(p) ==
  [p EXCEPT
     !.tagIds = IF IsSome(@) /\ Get(@) = {} THEN None ELSE @,
     !.searchTerm = IF IsSome(@) /\ Get(@) = << >> THEN None ELSE @,
     !.dropdownFilters =
       IF ~IsSome(@) THEN None
       ELSE LET kept == {k \in DOMAIN Get(@) : Get(@)[k] # {}} IN
         IF kept = {} THEN None ELSE Some([k \in kept |-> Get(@)[k]])]

\* C13: an empty filter field is inactive: empty tagIds, an empty searchTerm,
\* an empty dropdownFilters mapping and a dropdownFilters entry with no
\* selected option leave the result what it is with that field or entry removed.
C13_EmptyFieldIsInactive ==
  pc = "done" => result = Search(GetExperiences, WithoutEmpty(params))

\* a filter with empty tagIds, an empty searchTerm and an entry with no selected
\* option next to an active entry keeps one of two records
C13_Witness ==
  /\ pc = "done"
  /\ params.tagIds = Some({})
  /\ params.searchTerm = Some(<< >>)
  /\ params.dropdownFilters = Some((KeyLower :> {}) @@ (KeyOther :> {Str1("c")}))
  /\ Len(GetExperiences) = 2
  /\ Len(result) = 1

\* C14: searchExperiences only reads: a call leaves the stored experiences (with
\* their customFields, dates and tag annotations), tags and experience-tag
\* links as they were, and its result is determined by the tables and the
\* filter of this call alone.
C14_SearchOnlyReads ==
  /\ [][(pc = "idle" /\ pc' = "done") =>
          UNCHANGED <<experiences, tags, experienceTags>>]_vars
  /\ [](pc = "done" => result = MemSearch(GetExperiences, params))

\* C15: the key generated for a new column is the lower-cased name without the
\* characters outside [a-z0-9], in the order of the name, so it holds
\* characters of [a-z0-9] only and is determined by the name; the name
\* "Client Name!!" gives "clientname".
C15_GeneratedKeyIsStrippedLowerCase ==
  ~IsSome(form.column) =>
    /\ form.key = SelectSeq(ToLowerCase(form.name), LAMBDA c : c \in LowerAlnum)
    /\ \A i \in 1..Len(form.key) : form.key[i] \in LowerAlnum
    /\ form.name = ClientName =>
         form.key = <<"c", "l", "i", "e", "n", "t", "n", "a", "m", "e">>

\* the name "Client Name!!" typed for a new column has given "clientname"
C15_Witness ==
  /\ ~IsSome(form.column)
  /\ form.name = ClientName
  /\ form.key = <<"c", "l", "i", "e", "n", "t", "n", "a", "m", "e">>

\* C16: no two columns of the store ever have the same key, and a create,
\* update or import that the server answers with an error has left the
\* columns as they were.
C16_KeysUniqueConflictRejected ==
  /\ [](\A i, j \in DOMAIN columns : columns[i].key = columns[j].key => i = j)
  /\ [][(IsSome(response') /\ Get(response').status >= 400) =>
          columns' = columns]_vars

Exchanged(cols, a, b) ==
  [cols EXCEPT ![a].order = cols[b].order, ![b].order = cols[a].order]

\* no column of cols has its order between the orders of a and b
Adjacent(cols, a, b) ==
  \A x \in DOMAIN cols \ {a, b} :
    /\ ~(cols[a].order < cols[x].order /\ cols[x].order < cols[b].order)
    /\ ~(cols[b].order < cols[x].order /\ cols[x].order < cols[a].order)

\* the order values of cols, each as often as it is held
OrderCounts(cols) ==
  [o \in OrdersOf(cols) |-> Cardinality({id \in DOMAIN cols : cols[id].order = o})]

C18_SwapIsAtomic ==
  \A c \in Clients :
    IsSome(moves[c].last) =>
      Cardinality(Get(moves[c].last).sent \cap requests) # 1

\* the store holds an order value twice
SameOrderTwice == \E i, j \in DOMAIN columns : i # j /\ columns[i].order = columns[j].order
\* an order value of the initial arrangement 1..n is held by no column
OrderLost == \E o \in 1..Cardinality(DOMAIN columns) : o \notin OrdersOf(columns)

\* C19: concurrent moves of overlapping pairs can leave the orders inconsistent.
\* Every order value a move writes is one of the original values, so a state
\* holds an order value twice exactly when an original value is lost; the
\* witness is a final state of two such moves where this has happened.
C19_RaceLosesAnOrder ==
  /\ \A id \in DOMAIN columns : columns[id].order \in 1..Cardinality(DOMAIN columns)
  /\ SameOrderTwice <=> OrderLost

\* both clients have moved a column from the same store, their pairs share one
\* column, every update has been handled, and an order value is held twice
C19_Witness ==
  /\ requests = {}
  /\ \A c \in Clients : IsSome(moves[c].last)
  /\ \A c, d \in Clients :
       c # d =>
         LET m == Get(moves[c].last)
             k == Get(moves[d].last)
         IN /\ m.before = k.before
            /\ m.fresh /\ k.fresh
            /\ Cardinality({m.id, m.other} \cap {k.id, k.other}) = 1
  /\ SameOrderTwice
  /\ OrderLost

\* the two deletions alone: the links of the deleted row go, the others stay
C21_DeleteCascades ==
  /\ [][\A e \in 1..MaxExperiences :
          DeleteExperience(e) =>
            /\ \A l \in experienceTags' : l.experienceId # e
            /\ \A l \in experienceTags : l.experienceId # e => l \in experienceTags'
            /\ experienceTags' \subseteq experienceTags]_vars
  /\ [][\A t \in TagIds :
          DeleteTag(t) =>
            /\ \A l \in experienceTags' : l.tagId # t
            /\ \A l \in experienceTags : l.tagId # t => l \in experienceTags'
            /\ experienceTags' \subseteq experienceTags]_vars

\* C21: deleteExperience(e) leaves no link of experience e and deleteTag(t) no
\* link of tag t, the links of the other experiences and tags stay as they
\* were; and in every state reached by creating and deleting experiences and
\* tags and adding and removing links, every stored link names a stored
\* experience and a stored tag.
C21_DeleteCascadesLinksSound ==
  /\ C21_DeleteCascades
  /\ [](\A l \in experienceTags :
          l.experienceId \in ExperienceIds /\ l.tagId \in DOMAIN tags)

\* the links of DatabaseStorage name stored rows only
C21_ForeignKeysHold ==
  storage = "DatabaseStorage" =>
    \A l \in experienceTags : l.experienceId \in ExperienceIds /\ l.tagId \in DOMAIN tags

\* the step completes a call addTagToExperience(e, t): the whole call of
\* MemStorage, the answering select or the insert of DatabaseStorage
AddCompletes(e, t) ==
  /\ IsSome(returned')
  /\ \/ AddTagToExperience(e, t)
     \/ \E i \in 1..Len(calls) :
          /\ calls[i] = [op |-> "addTagToExperience", experienceId |-> e, tagId |-> t]
          /\ Insert(i)

\* no pair of an experience and a tag is linked twice
C22_OneLinkPerPair ==
  \A l, m \in experienceTags :
    (l.experienceId = m.experienceId /\ l.tagId = m.tagId) => l = m

\* C22: in every reachable state a pair (experienceId, tagId) has at most one
\* link, and a call addTagToExperience that completes on a pair that is linked
\* returns the existing link and adds nothing, also when the selects and
\* inserts of two calls for the same pair interleave.
C22_LinkedPairReturnsExisting ==
  /\ []C22_OneLinkPerPair
  /\ [][\A e \in 1..MaxExperiences, t \in TagIds :
          (AddCompletes(e, t) /\ LinksOf(experienceTags, e, t) # {}) =>
            /\ returned' = Returns("addTagToExperience",
                                   Some(FirstOf(LinksOf(experienceTags, e, t))))
            /\ experienceTags' = experienceTags]_vars

\* C23: no two stored tags have the same name; createTag called with a name
\* that a stored tag has returns that tag with its id and stores nothing, so a
\* second createTag of the same name leaves the tags as the first left them.
C23_TagNamesUnique ==
  /\ [](\A a, b \in DOMAIN tags : tags[a] = tags[b] => a = b)
  /\ [][\A name \in TagNames :
          (CreateTag(name) /\ TagsNamed(tags, name) # {}) =>
            /\ \E id \in DOMAIN tags :
                 /\ tags[id] = name
                 /\ returned' = Returns("createTag", Some([id |-> id, name |-> name]))
            /\ tags' = tags]_vars
  /\ [][\A name \in TagNames :
          (/\ CreateTag(name)
           /\ IsSome(returned) /\ Get(returned).op = "createTag"
           /\ IsSome(Get(returned).value) /\ Get(Get(returned).value).name = name) =>
            tags' = tags /\ returned' = returned]_vars

\* the last call was a createTag that returned a stored tag whose id is not
\* the one drawn last: the tag was there before the call
C23_Witness ==
  /\ IsSome(returned) /\ Get(returned).op = "createTag"
  /\ IsSome(Get(returned).value)
  /\ Get(Get(returned).value).id < tagCurrentId - 1
  /\ Get(Get(returned).value).id \in DOMAIN tags
  /\ tags[Get(Get(returned).value).id] = Get(Get(returned).value).name

\* the columns are the six default columns: one per default, with its order
IsSeeded(cols) ==
  /\ Cardinality(DOMAIN cols) = Len(DefaultColumns)
  /\ \A k \in 1..Len(DefaultColumns) :
       \E id \in DOMAIN cols : cols[id] = [key |-> DefaultColumns[k].key, order |-> k]

\* C24: initializeDefaultColumns creates the six default columns, with the
\* orders 1..6, only when its look at the store finds no column; on a store
\* with columns, as on a second start, it leaves the columns as they are; and
\* a default column it creates never has the key of a stored column, also
\* when create and import requests are handled between its steps.
C24_SeedingIdempotent ==
  /\ [][\A i \in 1..Len(calls) :
          (InitializeDefaultColumns(i) /\ calls[i].next = 0) =>
            /\ columns' = columns
            /\ IF DOMAIN columns = {}
                 THEN calls' = [calls EXCEPT ![i] = SeedCall(1)]
                 ELSE calls' = Without(calls, i)]_vars
  /\ [][\A i \in 1..Len(calls) :
          (InitializeDefaultColumns(i) /\ calls[i].next > 0 /\ columns' # columns) =>
            /\ \A id \in DOMAIN columns : columns[id].key # DefaultColumns[calls[i].next].key
            /\ \E id \in DOMAIN columns' \ DOMAIN columns :
                 /\ columns'[id] =
                      [key |-> DefaultColumns[calls[i].next].key, order |-> calls[i].next]
                 /\ columns' = (id :> columns'[id]) @@ columns]_vars
  /\ [][\A i \in 1..Len(calls) :
          (/\ InitializeDefaultColumns(i) /\ calls[i].next = Len(DefaultColumns)
           /\ columns' # columns /\ response = None) =>
            IsSeeded(columns')]_vars
  /\ []((storage = "MemStorage" /\ response = None) => IsSeeded(columns))

\* initializeDefaultColumns has completed although a column was created by a
\* request between its first and its last createColumn
C24_Witness ==
  /\ storage = "DatabaseStorage"
  /\ calls = << >>
  /\ returned = Returns("initializeDefaultColumns", None)
  /\ response = Status(201)
  /\ \E first, other, last \in DOMAIN columns :
       /\ columns[first].key = StartDateKey
       /\ columns[other].key = KeyOther
       /\ columns[last].key = NotesKey
       /\ first < other /\ other < last

\* the answer is 404 and every stored column, experience, tag and link is as
\* it was
NotFound ==
  /\ response' = Status(404)
  /\ UNCHANGED <<columns, experiences, tags, experienceTags>>

\* a request of one of the routes names an id that no stored row has
MissingIdRequest ==
  \/ \E id \in 1..MaxColumnId :
       /\ id \notin DOMAIN columns
       /\ \/ \E columnData \in RoutePatches : PatchColumn(id, columnData)
          \/ DeleteColumnById(id)
  \/ \E id \in 1..MaxExperiences :
       /\ id \notin ExperienceIds
       /\ \/ \E body \in RouteBodies : PatchExperience(id, body)
          \/ DeleteExperienceById(id)
          \/ GetExperienceById(id)
  \/ \E id \in TagIds : id \notin DOMAIN tags /\ DeleteTagById(id)

\* every link names a stored experience and a stored tag
LinksSound ==
  \A l \in experienceTags : l.experienceId \in ExperienceIds /\ l.tagId \in DOMAIN tags

\* C25: a PATCH or DELETE of a column, a PATCH, DELETE or GET of an
\* experience, or a DELETE of a tag that names an id no stored row has is
\* answered with 404 and changes no stored column, experience, tag or link;
\* every request is answered, whatever its handler throws.
C25_MissingIdIsNotFound ==
  /\ [][MissingIdRequest => NotFound]_vars
  /\ [][IsSome(response')]_vars

\* the same for the requests that meet a store whose links name stored rows
C25_SoundLinks ==
  /\ [][(LinksSound /\ MissingIdRequest) => NotFound]_vars
  /\ [][IsSome(response')]_vars

\* C26: for every filter without dropdownFilters, the value
\* DatabaseStorage.searchExperiences returns is the value
\* MemStorage.searchExperiences returns over the same stored experiences, in
\* the same order; custom fields that hold arrays of strings are among the
\* values the search term reaches.
C26_StoragesAgree ==
  (pc = "done" /\ params.dropdownFilters = None)
    => result = MemSearch(GetExperiences, params)

\* C27: when a filter result R is delivered through onFilter, the experiences
\* Home hands to the table are exactly R, also when R is empty.
C27_DisplaysFilterResult ==
  [][HandleFilter => DisplayedExperiences(home') = result]_vars

\* a delivered result with experiences is displayed as it is
C27_NonEmptyResultDisplayed ==
  [][(HandleFilter /\ result # << >>) => DisplayedExperiences(home') = result]_vars

\* C30: the page of the experience table lies between 1 and totalPages =
\* max(1, ceil(n / 5)), n the number of rows that match the search box; so the
\* page shown has a row whenever n > 0, and at most 5 rows.
C30_PageWithinTotalPages ==
  /\ 1 <= experienceTable.page
  /\ experienceTable.page <= TotalPages(Len(Rows))
  /\ Len(Rows) > 0 => Len(PaginatedExperiences(Rows, experienceTable.page)) > 0
  /\ Len(PaginatedExperiences(Rows, experienceTable.page)) <= ItemsPerPage

\* the clicks on the pagination alone keep the page within its range
C30_ClicksKeepPage ==
  [][(PaginationPrevious \/ PaginationNext \/ (\E i \in 0..4 : PaginationLink(i)))
       /\ experienceTable.page <= TotalPages(Len(Rows))
       => /\ 1 <= experienceTable'.page
          /\ experienceTable'.page <= TotalPages(Len(Rows))]_vars

\* the tag ids of the stored links of an experience
LinkedTo(links, id) == {l.tagId : l \in {m \in links : m.experienceId = id}}
OtherLinks(links, id) == {l \in links : l.experienceId # id}
\* PATCH /api/experiences/:id answers 200 to a body whose tags are stored tags
PatchesTags(id, body) ==
  /\ PatchExperience(id, body)
  /\ ExperienceFound(id)
  /\ IsSome(body.tags)
  /\ Elements(Get(body.tags)) \subseteq DOMAIN tags

\* what a step of the request does to the links
PatchSetsTags ==
  \A id \in 1..MaxExperiences, body \in ExperienceBodies :
    /\ PatchesTags(id, body) =>
         /\ LinkedTo(experienceTags', id) = Elements(Get(body.tags))
         /\ \A t \in Elements(Get(body.tags)) :
              Cardinality(LinksOf(experienceTags', id, t)) = 1
    /\ (PatchExperience(id, body) /\ body.tags = None) =>
         experienceTags' = experienceTags
    /\ PatchExperience(id, body) =>
         OtherLinks(experienceTags', id) = OtherLinks(experienceTags, id)

\* C28: PATCH /api/experiences/:id on a stored experience with a tags list T
\* of stored tag ids leaves the experience linked to exactly the tags of T,
\* each once; without a tags field its links stay as they are; the links of
\* the other experiences never change.
C28_PatchSetsTags == [][PatchSetsTags]_vars

\* on a store whose links name stored rows the request does as C28 says
C28_SoundLinks == [][LinksSound => PatchSetsTags]_vars

\* the tags the experience shows after the request are those of T
C28_ShownTags ==
  [][\A id \in 1..MaxExperiences, body \in ExperienceBodies :
       PatchesTags(id, body) =>
         {t.id : t \in ExperienceTagsIn(experienceTags', id)} = Elements(Get(body.tags))]_vars

\* the columns an import of the items has created, in their order
Imported(items, cols, firstId) ==
  /\ DOMAIN cols = firstId..(firstId + Len(items) - 1)
  /\ \A n \in 1..Len(items) : cols[firstId + n - 1].key = items[n].key

\* C29: an import that is answered with an error status (400 for a body that
\* is no array, 500 for a storage failure) has left the stored columns as they
\* were; an import answered with 200 has replaced them by the imported ones.
C29_FailedImportKeepsColumns ==
  [][\A body \in ImportBodies :
       ImportColumns(body) =>
         IF Get(response').status >= 400
           THEN columns' = columns
           ELSE Imported(body.items, columns', columnCurrentId)]_vars

\* a body that is no array leaves the columns alone, and a successful import
\* replaces them
C29_InvalidBodyAndSuccess ==
  [][\A body \in ImportBodies :
       ImportColumns(body) =>
         /\ ~body.isArray => (response' = Status(400) /\ columns' = columns)
         /\ response' = Status(200) => Imported(body.items, columns', columnCurrentId)]_vars

====
